---- MODULE Spec2Model ----
(***************************************************************************)
(* Verification model of claude-squad's session orchestration core.        *)
(*                                                                         *)
(* The specifications of this module:                                      *)
(*   SpecStore  - the persisted state file (config/state.go) accessed by   *)
(*                two processes through the advisory flock in state.lock.  *)
(*   Spec       - the instance lifecycle (session/instance.go), the        *)
(*                backends, the git worktree manager, the instance list    *)
(*                and the instance storage, driven by the TUI handlers of  *)
(*                app/app.go.                                              *)
(*   SpecAttach - one interactive attach of a started session: Attach,     *)
(*                Detach, DetachSafely and the goroutines they start, for  *)
(*                the zellij and the docker backend.                       *)
(*   SpecDiff   - the diff statistics of one instance and their rate       *)
(*                limiting (Instance.UpdateDiffStats, ShouldUpdateDiff,    *)
(*                GitWorktree.Diff).                                       *)
(*   SpecDiffTick - the same instance driven by the metadata tick, which   *)
(*                never stops.                                             *)
(*   SpecSummary - the summary tick: Summarizer.UpdateNextSummary.         *)
(*   SpecNames  - session names: toClaudeSquadZellijName.                  *)
(*   SpecTitle  - the title of a new instance: the stateNew key handler    *)
(*                and the title checks of Instance.                        *)
(*   SpecCache  - the pane content cache of one backend session and its    *)
(*                concurrent captures and invalidations.                   *)
(***************************************************************************)
EXTENDS Integers, Sequences, FiniteSets, TLC

(***************************************************************************)
(* Bounds of the model (not program constants).                            *)
(***************************************************************************)
\* Number of ticks of the file-system clock that the store model explores.
MaxClock == 1
\* Largest number of records of an instances blob in the store model.
MaxBlob == 1

(***************************************************************************)
(* PART I - the state store: config/state.go                               *)
(***************************************************************************)
VARIABLES
  stateFile,     \* state.json: [exists, content, mtime]
  stateLock,     \* flock table of state.lock: [shared : Procs -> Nat, excl : holder]
  clock,         \* file-system clock
  appState,      \* per process: the *State held in memory
  pc,            \* per process: position inside LoadState/SaveState/RefreshFromDisk
  local,         \* per process: locals of the running call
  lastComplete,  \* history: last complete snapshot that was on disk
  readView       \* history: per process, what its last read obtained

storeVars == <<stateFile, stateLock, clock, appState, pc, local, lastComplete, readView>>

(***************************************************************************)
(* PART II variables - one TUI process, its instances and the resources    *)
(* they own (declared here so that every action frames them).              *)
(***************************************************************************)
VARIABLES
  items,         \* List.items: the instances of the list, in order
  selectedIdx,   \* List.selectedIdx: index into the visible instances (0-based)
  filterMode,    \* List.filterMode
  homeState,     \* home.state
  stateData,     \* State.InstancesData held by the TUI process (records)
  disk,          \* the instance records of state.json
  diskNewer,     \* the file's mtime is after State.lastModTime
  world,         \* backend sessions, worktree directories, branches
  nextId,        \* number of worktree paths / container names handed out
  lastMsg,       \* history: the message handled last and its outcome
  inflight,      \* the loadingCompleteMsg of startInstanceAsync, when in flight
  autoYes,       \* home.autoYes: the --autoyes flag the process was started with
  events         \* number of rare events so far (see MaxEvents)

lifeVars == <<items, selectedIdx, filterMode, homeState, stateData, disk,
              diskNewer, world, nextId, lastMsg, inflight, autoYes, events>>

(***************************************************************************)
(* PART III variable - the attach state of one backend session handle.     *)
(***************************************************************************)
VARIABLE
  att            \* one ZellijSession / DockerSession handle and its goroutines

(***************************************************************************)
(* PART IV variable - one instance's diff statistics and timers.           *)
(***************************************************************************)
VARIABLE
  dif            \* the instance, its worktree's diff cache and the clock

(***************************************************************************)
(* PART V to VIII variables.                                               *)
(***************************************************************************)
VARIABLES
  summ,          \* the Summarizer, the instances it is given and the clock
  nm,            \* a session name and what was made of it
  ttl,           \* the instance of a title entry and the entry's outcome
  cc             \* one backend session's content cache and its callers

(***************************************************************************)
(* PART IX to XI variables.                                                *)
(***************************************************************************)
VARIABLES
  dkr,           \* one container-backed instance, its record and the containers
  par,           \* the worker tasks of one ParallelUpdate call
  cap            \* one readCaptureFileWithRetry call and the capture file

\* What the actions of Parts I and II leave alone.
auxVars == <<att, dif, summ, nm, ttl, cc, dkr, par, cap>>
\* What the actions of each later part leave alone.
attRest == <<storeVars, lifeVars, dif, summ, nm, ttl, cc, dkr, par, cap>>
difRest == <<storeVars, lifeVars, att, summ, nm, ttl, cc, dkr, par, cap>>
summRest == <<storeVars, lifeVars, att, dif, nm, ttl, cc, dkr, par, cap>>
nmRest == <<storeVars, lifeVars, att, dif, summ, ttl, cc, dkr, par, cap>>
ttlRest == <<storeVars, lifeVars, att, dif, summ, nm, cc, dkr, par, cap>>
dkrRest == <<storeVars, lifeVars, att, dif, summ, nm, ttl, cc, par, cap>>
parRest == <<storeVars, lifeVars, att, dif, summ, nm, ttl, cc, dkr, cap>>
capRest == <<storeVars, lifeVars, att, dif, summ, nm, ttl, cc, dkr, par>>
ccRest == <<storeVars, lifeVars, att, dif, summ, nm, ttl, dkr, par, cap>>

vars == <<storeVars, lifeVars, auxVars>>

\* The foreground TUI process and the headless daemon (spec section 1, item 3).
Procs == {"tui", "daemon"}
NoProc == "none"

\* The opaque instances blob is abstracted to the set of titles it records.
Blobs == 0 .. MaxBlob
\* A file whose write was begun (O_TRUNC) and not finished: it does not parse.
Partial == -1
\* History of a process's reads.  unseen: another process has completed a
\* write since this process last wrote or read the file; missed: the last
\* RefreshFromDisk returned without loading while unseen was true.
NoView == [got |-> 0, ok |-> TRUE, locked |-> FALSE, op |-> "none",
           unseen |-> FALSE, missed |-> FALSE]

\* DefaultState(): InstancesData = "[]", zero lastModTime.
DefaultState == [InstancesData |-> 0, lastModTime |-> 0]

NoLocal == [op |-> "none", caller |-> "none", rlocked |-> FALSE, modTime |-> 0,
            ret |-> "none"]

\* flock(2): every FileLock opens its own descriptor, so a request is checked
\* against every lock held through any other descriptor, the caller's own
\* included.
NoLockHeld == stateLock.excl = NoProc /\ \A q \in Procs : stateLock.shared[q] = 0
CanLockShared == stateLock.excl = NoProc
CanLockExclusive == NoLockHeld

\* A SaveState call is in progress in process q.
InSaveState(q) == pc[q] \in {"ss_lock", "ss_trunc", "ss_write", "ss_stat", "ss_unlock"}

\* The snapshots a reader may legitimately obtain at this moment: the last
\* complete one, or the one a writer is in the middle of installing.
AllowedSnapshots ==
  {lastComplete} \cup {appState[q].InstancesData : q \in {r \in Procs : InSaveState(r)}}

InitStore ==
  /\ \E ex \in BOOLEAN, b \in Blobs :
       /\ stateFile = [exists |-> ex, content |-> IF ex THEN b ELSE 0, mtime |-> 0]
       /\ lastComplete = IF ex THEN b ELSE 0
  /\ stateLock = [shared |-> [p \in Procs |-> 0], excl |-> NoProc]
  /\ clock = 0
  /\ appState = [p \in Procs |-> DefaultState]
  /\ pc = [p \in Procs |-> "boot"]
  /\ local = [p \in Procs |-> NoLocal]
  /\ readView = [p \in Procs |-> NoView]

\* A call returns r: its locals go out of scope.
Return(p, r) == [local EXCEPT ![p] = [NoLocal EXCEPT !.op = local[p].op, !.ret = r]]

\* The file-system clock advances.
Tick ==
  /\ clock < MaxClock
  /\ clock' = clock + 1
  /\ UNCHANGED <<lifeVars, auxVars, stateFile, stateLock, appState, pc, local, lastComplete, readView>>

----
\* LoadState, state.go:62-110

\* newHome calls LoadState once when the process starts.
LoadState_Begin(p) ==
  /\ pc[p] = "boot"
  /\ pc' = [pc EXCEPT ![p] = "ls_rlock"]
  /\ local' = [local EXCEPT ![p] = [NoLocal EXCEPT !.op = "LoadState"]]
  /\ UNCHANGED <<lifeVars, auxVars, stateFile, stateLock, clock, appState, lastComplete, readView>>

\* lock.RLock() succeeds: blocks while an exclusive lock is held.
LoadState_RLock(p) ==
  /\ pc[p] = "ls_rlock"
  /\ CanLockShared
  /\ stateLock' = [stateLock EXCEPT !.shared[p] = @ + 1]
  /\ local' = [local EXCEPT ![p].rlocked = TRUE]
  /\ pc' = [pc EXCEPT ![p] = "ls_stat"]
  /\ UNCHANGED <<lifeVars, auxVars, stateFile, clock, appState, lastComplete, readView>>

\* lock.RLock() fails: a warning is logged and the read continues without
\* the lock (state.go:73-75).
LoadState_RLockFails(p) ==
  /\ pc[p] = "ls_rlock"
  /\ local' = [local EXCEPT ![p].rlocked = FALSE]
  /\ pc' = [pc EXCEPT ![p] = "ls_stat"]
  /\ UNCHANGED <<lifeVars, auxVars, stateFile, stateLock, clock, appState, lastComplete, readView>>

\* os.Stat(statePath): modTime stays zero when the file is missing.
LoadState_Stat(p) ==
  /\ pc[p] = "ls_stat"
  /\ local' = [local EXCEPT ![p].modTime = IF stateFile.exists THEN stateFile.mtime ELSE 0]
  /\ pc' = [pc EXCEPT ![p] = "ls_read"]
  /\ UNCHANGED <<lifeVars, auxVars, stateFile, stateLock, clock, appState, lastComplete, readView>>

\* Release of the shared lock taken by LoadState (deferred lock.Unlock()).
ReleaseShared(p) ==
  IF local[p].rlocked
    THEN [stateLock EXCEPT !.shared[p] = @ - 1]
    ELSE stateLock

\* os.ReadFile + json.Unmarshal and the return.
LoadState_Read(p) ==
  /\ pc[p] = "ls_read"
  /\ IF ~stateFile.exists
       THEN \* missing file: defaultState.lastModTime = now; SaveState(defaultState)
            /\ appState' = [appState EXCEPT ![p] = [DefaultState EXCEPT !.lastModTime = clock]]
            /\ local' = [local EXCEPT ![p].caller = "LoadState"]
            /\ pc' = [pc EXCEPT ![p] = "ss_lock"]
            /\ UNCHANGED <<lifeVars, auxVars, stateLock, readView>>
       ELSE /\ appState' = [appState EXCEPT ![p] =
                 IF stateFile.content = Partial
                   THEN DefaultState       \* failed to parse state file
                   ELSE [InstancesData |-> stateFile.content,
                         lastModTime |-> local[p].modTime]]
            /\ readView' = [readView EXCEPT ![p] =
                 [got |-> appState'[p].InstancesData,
                  ok |-> appState'[p].InstancesData \in AllowedSnapshots,
                  locked |-> local[p].rlocked,
                  op |-> "LoadState",
                  unseen |-> stateFile.content = Partial /\ readView[p].unseen,
                  missed |-> FALSE]]
            /\ stateLock' = ReleaseShared(p)
            /\ local' = Return(p, "state")
            /\ pc' = [pc EXCEPT ![p] = "idle"]
  /\ UNCHANGED <<lifeVars, auxVars, stateFile, clock, lastComplete>>

\* LoadState returns defaultState after SaveState(defaultState) came back
\* (a save error is only logged).
LoadState_ReturnDefault(p) ==
  /\ pc[p] = "ls_return"
  /\ stateLock' = ReleaseShared(p)
  /\ local' = Return(p, "default")
  /\ pc' = [pc EXCEPT ![p] = "idle"]
  /\ UNCHANGED <<lifeVars, auxVars, stateFile, clock, appState, lastComplete, readView>>

----
\* SaveState, state.go:114-148, and State.SaveInstances, state.go:153-156

\* s.InstancesData = instancesJSON; return SaveState(s)
SaveInstances_Begin(p) ==
  /\ pc[p] = "idle"
  /\ \E b \in Blobs :
       /\ appState' = [appState EXCEPT ![p].InstancesData = b]
       /\ local' = [local EXCEPT ![p] =
            [NoLocal EXCEPT !.op = "SaveInstances", !.caller = "SaveInstances"]]
  /\ pc' = [pc EXCEPT ![p] = "ss_lock"]
  /\ UNCHANGED <<lifeVars, auxVars, stateFile, stateLock, clock, lastComplete, readView>>

\* Where SaveState returns to.
AfterSaveState(p) == IF local[p].caller = "LoadState" THEN "ls_return" ELSE "idle"

\* SaveState returns r to its caller.
SaveReturn(p, r) ==
  IF local[p].caller = "LoadState" THEN [local EXCEPT ![p].ret = r] ELSE Return(p, r)

\* lock.Lock() succeeds: blocks until no other descriptor holds a lock.
SaveState_Lock(p) ==
  /\ pc[p] = "ss_lock"
  /\ CanLockExclusive
  /\ stateLock' = [stateLock EXCEPT !.excl = p]
  /\ pc' = [pc EXCEPT ![p] = "ss_trunc"]
  /\ UNCHANGED <<lifeVars, auxVars, stateFile, clock, appState, local, lastComplete, readView>>

\* lock.Lock() fails: "failed to acquire write lock" is returned.
SaveState_LockFails(p) ==
  /\ pc[p] = "ss_lock"
  /\ local' = SaveReturn(p, "lock error")
  /\ pc' = [pc EXCEPT ![p] = AfterSaveState(p)]
  /\ UNCHANGED <<lifeVars, auxVars, stateFile, stateLock, clock, appState, lastComplete, readView>>

\* os.WriteFile, first half: open(O_WRONLY|O_CREATE|O_TRUNC) empties the file.
SaveState_Truncate(p) ==
  /\ pc[p] = "ss_trunc"
  /\ stateFile' = [exists |-> TRUE, content |-> Partial, mtime |-> clock]
  /\ pc' = [pc EXCEPT ![p] = "ss_write"]
  /\ UNCHANGED <<lifeVars, auxVars, stateLock, clock, appState, local, lastComplete, readView>>

\* os.WriteFile fails at the open: return err, the deferred Unlock runs.
SaveState_WriteFails(p) ==
  /\ pc[p] = "ss_trunc"
  /\ stateLock' = [stateLock EXCEPT !.excl = NoProc]
  /\ local' = SaveReturn(p, "write error")
  /\ pc' = [pc EXCEPT ![p] = AfterSaveState(p)]
  /\ UNCHANGED <<lifeVars, auxVars, stateFile, clock, appState, lastComplete, readView>>

\* os.WriteFile, second half: the marshalled state is written.
SaveState_Write(p) ==
  /\ pc[p] = "ss_write"
  /\ stateFile' = [exists |-> TRUE, content |-> appState[p].InstancesData, mtime |-> clock]
  /\ lastComplete' = appState[p].InstancesData
  /\ readView' = [q \in Procs |-> [readView[q] EXCEPT !.unseen = (q # p)]]
  /\ pc' = [pc EXCEPT ![p] = "ss_stat"]
  /\ UNCHANGED <<lifeVars, auxVars, stateLock, clock, appState, local>>

\* state.lastModTime = info.ModTime()
SaveState_Stat(p) ==
  /\ pc[p] = "ss_stat"
  /\ appState' = [appState EXCEPT ![p].lastModTime = stateFile.mtime]
  /\ pc' = [pc EXCEPT ![p] = "ss_unlock"]
  /\ UNCHANGED <<lifeVars, auxVars, stateFile, stateLock, clock, local, lastComplete, readView>>

\* deferred lock.Unlock() and return nil
SaveState_Unlock(p) ==
  /\ pc[p] = "ss_unlock"
  /\ stateLock' = [stateLock EXCEPT !.excl = NoProc]
  /\ local' = SaveReturn(p, "ok")
  /\ pc' = [pc EXCEPT ![p] = AfterSaveState(p)]
  /\ UNCHANGED <<lifeVars, auxVars, stateFile, clock, appState, lastComplete, readView>>

----
\* NeedsRefresh, state.go:207-213, and State.RefreshFromDisk, state.go:217-258

\* modTime.After(since); a stat error yields false
NeedsRefresh(since) == stateFile.exists /\ stateFile.mtime > since

RefreshFromDisk_Begin(p) ==
  /\ pc[p] = "idle"
  /\ local' = [local EXCEPT ![p] = [NoLocal EXCEPT !.op = "RefreshFromDisk"]]
  /\ pc' = [pc EXCEPT ![p] = "rf_need"]
  /\ UNCHANGED <<lifeVars, auxVars, stateFile, stateLock, clock, appState, lastComplete, readView>>

RefreshFromDisk_Need(p) ==
  /\ pc[p] = "rf_need"
  /\ IF NeedsRefresh(appState[p].lastModTime)
       THEN /\ pc' = [pc EXCEPT ![p] = "rf_rlock"]
            /\ UNCHANGED <<local, readView>>
       ELSE /\ pc' = [pc EXCEPT ![p] = "idle"]
            /\ local' = Return(p, "false")
            /\ readView' = [readView EXCEPT ![p].missed = readView[p].unseen]
  /\ UNCHANGED <<lifeVars, auxVars, stateFile, stateLock, clock, appState, lastComplete>>

\* lock.RLock() succeeds
RefreshFromDisk_RLock(p) ==
  /\ pc[p] = "rf_rlock"
  /\ CanLockShared
  /\ stateLock' = [stateLock EXCEPT !.shared[p] = @ + 1]
  /\ local' = [local EXCEPT ![p].rlocked = TRUE]
  /\ pc' = [pc EXCEPT ![p] = "rf_stat"]
  /\ UNCHANGED <<lifeVars, auxVars, stateFile, clock, appState, lastComplete, readView>>

\* lock.RLock() fails: RefreshFromDisk returns (false, error), state.go:231-233
RefreshFromDisk_RLockFails(p) ==
  /\ pc[p] = "rf_rlock"
  /\ local' = Return(p, "error")
  /\ readView' = [readView EXCEPT ![p].missed = readView[p].unseen]
  /\ pc' = [pc EXCEPT ![p] = "idle"]
  /\ UNCHANGED <<lifeVars, auxVars, stateFile, stateLock, clock, appState, lastComplete>>

\* os.Stat(statePath) under the lock
RefreshFromDisk_Stat(p) ==
  /\ pc[p] = "rf_stat"
  /\ IF stateFile.exists
       THEN /\ local' = [local EXCEPT ![p].modTime = stateFile.mtime]
            /\ pc' = [pc EXCEPT ![p] = "rf_read"]
            /\ UNCHANGED <<stateLock, readView>>
       ELSE /\ local' = Return(p, "error")
            /\ stateLock' = ReleaseShared(p)
            /\ readView' = [readView EXCEPT ![p].missed = readView[p].unseen]
            /\ pc' = [pc EXCEPT ![p] = "idle"]
  /\ UNCHANGED <<lifeVars, auxVars, stateFile, clock, appState, lastComplete>>

\* os.ReadFile, json.Unmarshal, update of s, deferred Unlock
RefreshFromDisk_Read(p) ==
  /\ pc[p] = "rf_read"
  /\ IF stateFile.content = Partial
       THEN /\ local' = Return(p, "error")
            /\ readView' = [readView EXCEPT ![p].missed = readView[p].unseen]
            /\ UNCHANGED appState
       ELSE /\ appState' = [appState EXCEPT ![p] =
                 [InstancesData |-> stateFile.content, lastModTime |-> local[p].modTime]]
            /\ readView' = [readView EXCEPT ![p] =
                 [got |-> stateFile.content,
                  ok |-> stateFile.content \in AllowedSnapshots,
                  locked |-> local[p].rlocked,
                  op |-> "RefreshFromDisk",
                  unseen |-> FALSE,
                  missed |-> FALSE]]
            /\ local' = Return(p, "true")
  /\ stateLock' = ReleaseShared(p)
  /\ pc' = [pc EXCEPT ![p] = "idle"]
  /\ UNCHANGED <<lifeVars, auxVars, stateFile, clock, lastComplete>>

\* The steps a process takes when no system call fails.
ProcStep(p) ==
  \/ LoadState_Begin(p)
  \/ LoadState_RLock(p)
  \/ LoadState_Stat(p)
  \/ LoadState_Read(p)
  \/ LoadState_ReturnDefault(p)
  \/ SaveInstances_Begin(p)
  \/ SaveState_Lock(p)
  \/ SaveState_Truncate(p)
  \/ SaveState_Write(p)
  \/ SaveState_Stat(p)
  \/ SaveState_Unlock(p)
  \/ RefreshFromDisk_Begin(p)
  \/ RefreshFromDisk_Need(p)
  \/ RefreshFromDisk_RLock(p)
  \/ RefreshFromDisk_Stat(p)
  \/ RefreshFromDisk_Read(p)

\* The steps in which a lock acquisition or the open of the state file fails.
ProcFails(p) ==
  \/ LoadState_RLockFails(p)
  \/ SaveState_LockFails(p)
  \/ SaveState_WriteFails(p)
  \/ RefreshFromDisk_RLockFails(p)

----
(***************************************************************************)
(* PART II - instances, backends, worktrees                                *)
(***************************************************************************)
\* Longest title the model types into a new instance.
MaxTitleLen == 1
\* Number of worktree paths / container names the model hands out, that is,
\* the number of instances it creates.
MaxIds == 2

\* The characters of titles.
Runes == {"a", "b"}
Titles == {t \in UNION {[1 .. n -> Runes] : n \in 0 .. MaxTitleLen} : TRUE}

\* session.Status, instance.go (iota order Running, Ready, Loading, Paused)
Running == "Running"
Ready == "Ready"
Loading == "Loading"
Paused == "Paused"

\* config.SessionTypeZellij, config.SessionTypeDockerBind
SessionTypeZellij == "zellij"
SessionTypeDockerBind == "docker-bind"
SessionTypes == {SessionTypeZellij, SessionTypeDockerBind}

\* NewInstance(opts): Title "", Status Ready, no session, no worktree.
\* id stands for the unique worktree path / container name the instance
\* will be given at Start; name for gitWorktree.sessionName.
NewInstance(id, st) ==
  [id |-> id, Title |-> <<>>, name |-> <<>>, Status |-> Ready,
   started |-> FALSE, Archived |-> FALSE, AutoYes |-> FALSE, SessionType |-> st,
   session |-> FALSE, ptmx |-> FALSE, attachCh |-> FALSE, gitWorktree |-> FALSE]

\* A failure set names the external commands that fail during one handler.
NoWorld == [sessions |-> {}, worktrees |-> {}, branches |-> {}, checkedOut |-> {}]

\* The prefix of every zellij session name, "claudesquad_".  A name is a
\* sequence of symbols; the letters "claudesquad" are one symbol, so that
\* the prefix is two symbols and can come about from "claudesquad" followed
\* by ".", or by white space and "_".
ZellijPrefix == <<"claudesquad", "_">>

\* whiteSpaceRegex, \s+ (space and tab stand for its class)
whiteSpace == {" ", "\t"}

HasPrefix(s, prefix) ==
  Len(s) >= Len(prefix) /\ SubSeq(s, 1, Len(prefix)) = prefix

TrimPrefix(s, prefix) ==
  IF HasPrefix(s, prefix) THEN SubSeq(s, Len(prefix) + 1, Len(s)) ELSE s

\* toClaudeSquadZellijName removes white space, maps "." to "_" and puts
\* the prefix in front.
toClaudeSquadZellijName(str) ==
  LET kept == SelectSeq(str, LAMBDA c : c \notin whiteSpace)
      under == [k \in 1 .. Len(kept) |-> IF kept[k] = "." THEN "_" ELSE kept[k]]
  IN  ZellijPrefix \o under

\* The backend session an instance's handle creates: its kind, its name and
\* the directory (id) it runs in.
SessionOf(i) ==
  [kind |-> i.SessionType,
   name |-> IF i.SessionType = SessionTypeZellij
              THEN toClaudeSquadZellijName(i.name) ELSE <<>>,
   id |-> i.id]

\* A zellij session is addressed by its name alone, a container by its
\* unique container name.
SameSession(s, i) ==
  /\ s.kind = i.SessionType
  /\ IF i.SessionType = SessionTypeZellij
       THEN s.name = toClaudeSquadZellijName(i.name)
       ELSE s.id = i.id

\* ZellijSession.DoesSessionExist / DockerSession.DoesSessionExist
DoesSessionExist(w, i) == \E s \in w.sessions : SameSession(s, i)

\* Instance.SessionAlive: false without a session handle
SessionAlive(w, i) == i.session /\ DoesSessionExist(w, i)

\* Restore: the session must exist and the PTY must open; the new PTY
\* replaces the handle's ptmx.
RestoreOk(w, i, f) == DoesSessionExist(w, i) /\ "pty" \notin f
Restored(i) == [i EXCEPT !.ptmx = TRUE]

\* ZellijSession.Start: fails when the session exists, when the spawn
\* fails, when the 5 s poll times out (the spawned server may still bring
\* the session up afterwards) and when Restore fails (then Close is called).
ZellijStart(w, i, f) ==
  IF DoesSessionExist(w, i) \/ "spawn" \in f
    THEN [ok |-> FALSE, w |-> w, i |-> i]
  ELSE IF "timeout" \in f
    THEN [ok |-> FALSE,
          w |-> IF "late" \in f
                  THEN [w EXCEPT !.sessions = @ \cup {SessionOf(i)}] ELSE w,
          i |-> i]
  ELSE IF "pty" \in f
    THEN [ok |-> FALSE,
          w |-> IF "kill" \in f
                  THEN [w EXCEPT !.sessions = @ \cup {SessionOf(i)}] ELSE w,
          i |-> [i EXCEPT !.ptmx = FALSE]]
  ELSE [ok |-> TRUE,
        w |-> [w EXCEPT !.sessions = @ \cup {SessionOf(i)}],
        i |-> Restored(i)]

\* DockerSession.Start: "docker run", then return d.Restore().
DockerStart(w, i, f) ==
  IF DoesSessionExist(w, i) \/ "spawn" \in f
    THEN [ok |-> FALSE, w |-> w, i |-> i]
  ELSE IF "pty" \in f
    THEN [ok |-> FALSE, w |-> [w EXCEPT !.sessions = @ \cup {SessionOf(i)}], i |-> i]
  ELSE [ok |-> TRUE,
        w |-> [w EXCEPT !.sessions = @ \cup {SessionOf(i)}],
        i |-> Restored(i)]

\* Multiplexer.Start
SessionStart(w, i, f) ==
  IF i.SessionType = SessionTypeZellij THEN ZellijStart(w, i, f) ELSE DockerStart(w, i, f)

\* ZellijSession.Close / DockerSession.Close: the PTY is closed and the
\* session killed ("zellij kill-session", "docker rm -f"); killing fails when
\* the command fails or the session is not there.
SessionClose(w, i, f) ==
  [err |-> "kill" \in f \/ ~DoesSessionExist(w, i),
   w |-> IF "kill" \in f THEN w
         ELSE [w EXCEPT !.sessions = {s \in @ : ~SameSession(s, i)}],
   i |-> [i EXCEPT !.ptmx = FALSE, !.attachCh = FALSE]]

\* ZellijSession.DetachSafely returns at once unless the session is
\* interactively attached; DockerSession.DetachSafely closes the PTY and
\* stops the container.
DetachSafely(i) ==
  IF i.SessionType = SessionTypeZellij /\ ~i.attachCh
    THEN i
    ELSE [i EXCEPT !.ptmx = FALSE, !.attachCh = FALSE]

----
\* git worktree manager, session/git

\* The worktree directory of an instance and the branch it has checked out.
WorktreeOf(i) == [id |-> i.id, branch |-> i.name]
WorktreeExists(w, i) == \E t \in w.worktrees : t.id = i.id

\* IsBranchCheckedOut: the branch is checked out in a worktree of the
\* repository other than the instance's own.
IsBranchCheckedOut(w, i) == i.name \in w.checkedOut

\* git refuses "worktree add" for a branch that some worktree has checked out.
BranchInUse(w, i) ==
  \/ i.name \in w.checkedOut
  \/ \E t \in w.worktrees : t.branch = i.name /\ t.id # i.id

\* GitWorktree.Setup: a stale worktree at the path is removed, then
\* "git worktree add" creates the directory, and the branch when it is new.
Setup(w, i, f) ==
  IF "setup" \in f \/ (i.name \in w.branches /\ BranchInUse(w, i))
    THEN [ok |-> FALSE, w |-> w]
    ELSE [ok |-> TRUE,
          w |-> [w EXCEPT !.worktrees = {t \in @ : t.id # i.id} \cup {WorktreeOf(i)},
                          !.branches = @ \cup {i.name}]]

\* GitWorktree.Remove: "git worktree remove -f"
WorktreeRemoved(w, i) == [w EXCEPT !.worktrees = {t \in @ : t.id # i.id}]

\* GitWorktree.Cleanup: remove the worktree if its path exists, open the
\* repository (on failure return what was collected), remove the branch
\* reference if present, prune. Returns the failed steps.
Cleanup(w, i, f) ==
  LET rm == WorktreeExists(w, i)
      w1 == IF rm /\ "remove" \notin f THEN WorktreeRemoved(w, i) ELSE w
      e1 == IF rm /\ "remove" \in f THEN {"remove"} ELSE {}
      br == i.name \in w1.branches
  IN  IF "open" \in f
        THEN [w |-> w1, errs |-> e1 \cup {"open"}]
        ELSE [w |-> IF br /\ "branch" \notin f
                      THEN [w1 EXCEPT !.branches = @ \ {i.name}] ELSE w1,
              errs |-> e1 \cup (IF br /\ "branch" \in f THEN {"branch"} ELSE {})
                          \cup (IF "prune" \in f THEN {"prune"} ELSE {})]

\* Instance.combineErrors / GitWorktree.combineErrors: no error for an empty
\* list, otherwise one error that carries every collected failure.
combineErrors(errs) == IF errs = {} THEN "nil" ELSE "error"
----
\* session.Instance, session/instance.go

\* Instance.Kill: nothing is done for an instance that is not started;
\* otherwise Close, then Cleanup, each attempted, the failures collected.
Kill(w, i, f) ==
  IF ~i.started
    THEN [w |-> w, i |-> i, errs |-> {}]
    ELSE LET c  == IF i.session THEN SessionClose(w, i, f)
                                ELSE [err |-> FALSE, w |-> w, i |-> i]
             g  == IF i.gitWorktree THEN Cleanup(c.w, c.i, f)
                                    ELSE [w |-> c.w, errs |-> {}]
         IN  [w |-> g.w, i |-> c.i,
              errs |-> (IF c.err THEN {"close"} ELSE {}) \cup g.errs]

\* The deferred handler of startInternal: on an error Kill is called, else
\* the instance is marked started.
StartDeferred(w, i, f, failed) ==
  IF failed
    THEN LET k == Kill(w, i, f) IN [ok |-> FALSE, w |-> k.w, i |-> k.i]
    ELSE [ok |-> TRUE, w |-> w, i |-> [i EXCEPT !.started = TRUE]]

\* Instance.Start(true): new worktree descriptor from the title, new session
\* handle, Setup, session Start (on failure the worktree is cleaned up),
\* status Running.
StartFirstTime(w, i, f) ==
  IF i.Title = <<>> \/ "findrepo" \in f
    THEN [ok |-> FALSE, w |-> w, i |-> i]
    ELSE LET i1 == [i EXCEPT !.name = i.Title, !.gitWorktree = TRUE, !.session = TRUE]
             s  == Setup(w, i1, f)
             b  == SessionStart(s.w, i1, f)
         IN  IF ~s.ok THEN StartDeferred(w, i1, f, TRUE)
             ELSE IF ~b.ok
               THEN StartDeferred(Cleanup(b.w, b.i, f).w, b.i, f, TRUE)
               ELSE StartDeferred(b.w, [b.i EXCEPT !.Status = Running], f, FALSE)

\* Instance.Start(false): Restore of the existing session, status Running.
StartExisting(w, i, f) ==
  LET i1 == [i EXCEPT !.session = TRUE]
  IN  IF ~RestoreOk(w, i1, f)
        THEN StartDeferred(w, i1, f, TRUE)
        ELSE StartDeferred(w, [Restored(i1) EXCEPT !.Status = Running], f, FALSE)

\* Instance.Rename: only the empty and the over-long title are refused.
RenameOk(newTitle) == newTitle # <<>> /\ Len(newTitle) <= 32
Rename(i, newTitle) == IF RenameOk(newTitle) THEN [i EXCEPT !.Title = newTitle] ELSE i

\* Instance.Pause
Pause(w, i, f) ==
  IF ~i.started \/ i.Status = Paused \/ "commit" \in f
    THEN [err |-> TRUE, w |-> w, i |-> i]
    ELSE LET i1 == DetachSafely(i)
             ex == WorktreeExists(w, i)
             w1 == IF ex /\ "remove" \notin f THEN WorktreeRemoved(w, i) ELSE w
         IN  IF (ex /\ ({"remove", "prune"} \cap f # {})) \/ "isdirty" \in f
               THEN [err |-> TRUE, w |-> w1, i |-> i1]
               ELSE [err |-> FALSE, w |-> w1, i |-> [i1 EXCEPT !.Status = Paused]]

\* A Resume that would not look at the status.
ResumeWithoutStatusCheck(w, i, f) ==
  IF ~i.started \/ IsBranchCheckedOut(w, i)
    THEN [err |-> TRUE, w |-> w, i |-> i]
    ELSE LET s == Setup(w, i, f)
             b == IF SessionAlive(s.w, i) /\ RestoreOk(s.w, i, f)
                    THEN [ok |-> TRUE, w |-> s.w, i |-> Restored(i)]
                    ELSE SessionStart(s.w, i, f)
         IN  IF ~s.ok THEN [err |-> TRUE, w |-> w, i |-> i]
             ELSE IF ~b.ok
               THEN [err |-> TRUE, w |-> Cleanup(b.w, b.i, f).w, i |-> b.i]
               ELSE [err |-> FALSE, w |-> b.w, i |-> [b.i EXCEPT !.Status = Running]]

\* Instance.Resume
Resume(w, i, f) ==
  IF ~i.started \/ i.Status # Paused \/ IsBranchCheckedOut(w, i)
    THEN [err |-> TRUE, w |-> w, i |-> i]
    ELSE LET s == Setup(w, i, f)
             b == IF SessionAlive(s.w, i) /\ RestoreOk(s.w, i, f)
                    THEN [ok |-> TRUE, w |-> s.w, i |-> Restored(i)]
                    ELSE SessionStart(s.w, i, f)
         IN  IF ~s.ok THEN [err |-> TRUE, w |-> w, i |-> i]
             ELSE IF ~b.ok
               THEN [err |-> TRUE, w |-> Cleanup(b.w, b.i, f).w, i |-> b.i]
               ELSE [err |-> FALSE, w |-> b.w, i |-> [b.i EXCEPT !.Status = Running]]

\* Instance.SendKeys: refused for an instance that is not started or is
\* Paused; otherwise the keys go to the backend ("zellij action write-chars",
\* a write to the container's PTY).
SendKeys(w, i) ==
  IF ~i.started \/ i.Status = Paused
    THEN [err |-> TRUE, w |-> w, i |-> i]
    ELSE [err |-> IF i.SessionType = SessionTypeZellij
                    THEN ~DoesSessionExist(w, i) ELSE ~i.ptmx,
          w |-> w, i |-> i]

\* Instance.ToInstanceData
ToInstanceData(i) ==
  [Title |-> i.Title, Status |-> i.Status, Archived |-> i.Archived,
   AutoYes |-> i.AutoYes, SessionType |-> i.SessionType, id |-> i.id, name |-> i.name]

\* A FromInstanceData that would call Start(false) for every record.
FromInstanceDataAlwaysStarts(w, d, f) ==
  StartExisting(w, [id |-> d.id, Title |-> d.Title, name |-> d.name, Status |-> d.Status,
                    started |-> FALSE, Archived |-> d.Archived, AutoYes |-> FALSE,
                    SessionType |-> d.SessionType, session |-> FALSE, ptmx |-> FALSE,
                    attachCh |-> FALSE, gitWorktree |-> TRUE], f)

\* FromInstanceData: a paused or archived record yields a started instance
\* with a lazy session handle; any other record is started with Start(false).
\* The record's AutoYes is not copied.
FromInstanceData(w, d, f) ==
  LET i == [id |-> d.id, Title |-> d.Title, name |-> d.name, Status |-> d.Status,
            started |-> FALSE, Archived |-> d.Archived, AutoYes |-> FALSE,
            SessionType |-> d.SessionType,
            session |-> FALSE, ptmx |-> FALSE, attachCh |-> FALSE, gitWorktree |-> TRUE]
  IN  IF i.Status = Paused \/ i.Archived
        THEN [ok |-> TRUE, w |-> w, i |-> [i EXCEPT !.started = TRUE, !.session = TRUE]]
        ELSE StartExisting(w, i, f)

----
\* session.Storage, unnamed/part_013

\* A SaveInstances that would write every started instance.
KeepDuplicates(recs, seen) == recs

\* SaveInstances: the started instances, the first of every title
RECURSIVE DedupByTitle(_, _)
DedupByTitle(recs, seen) ==
  IF recs = <<>> THEN <<>>
  ELSE IF Head(recs).Title \in seen THEN DedupByTitle(Tail(recs), seen)
  ELSE <<Head(recs)>> \o DedupByTitle(Tail(recs), seen \cup {Head(recs).Title})

RECURSIVE MapToData(_)
MapToData(insts) ==
  IF insts = <<>> THEN <<>>
  ELSE (IF Head(insts).started THEN <<ToInstanceData(Head(insts))>> ELSE <<>>)
         \o MapToData(Tail(insts))

SaveInstancesData(insts) == DedupByTitle(MapToData(insts), {})

\* LoadInstances: FromInstanceData of every record, the failing ones skipped
RECURSIVE LoadedFrom(_, _, _)
LoadedFrom(w, recs, f) ==
  IF recs = <<>> THEN <<>>
  ELSE LET r == FromInstanceData(w, Head(recs), f)
       IN  (IF r.ok THEN <<r.i>> ELSE <<>>) \o LoadedFrom(w, Tail(recs), f)

\* setInstanceArchived: the first record of that title gets the flag
RECURSIVE SetArchived(_, _, _)
SetArchived(recs, title, archived) ==
  IF recs = <<>> THEN <<>>
  ELSE IF Head(recs).Title = title
    THEN <<[Head(recs) EXCEPT !.Archived = archived]>> \o Tail(recs)
    ELSE <<Head(recs)>> \o SetArchived(Tail(recs), title, archived)

HasTitle(recs, title) == \E k \in 1 .. Len(recs) : recs[k].Title = title
----
\* ui.List, unnamed/part_001 (the same code is in ui/list.go)

FilterAll == "all"
FilterNeedsAttention == "attention"
FilterArchived == "archived"

Positions(its) == [k \in 1 .. Len(its) |-> k]

IsVisible(i, fm) ==
  CASE fm = FilterAll -> ~i.Archived
    [] fm = FilterNeedsAttention -> ~i.Archived /\ i.Status = Ready
    [] OTHER -> i.Archived

\* GetVisibleInstances, as the positions in items of the visible instances
GetVisibleInstances(its, fm) ==
  SelectSeq(Positions(its), LAMBDA k : IsVisible(its[k], fm))

NumInstances(its, fm) == Len(GetVisibleInstances(its, fm))

\* GetSelectedInstance: the position of the selected instance, 0 for nil
GetSelectedInstance(its, fm, sel) ==
  LET v == GetVisibleInstances(its, fm)
  IN  IF Len(v) = 0 \/ sel >= Len(v) \/ sel < 0 THEN 0 ELSE v[sel + 1]

\* visibleItems[l.selectedIdx] is evaluated without a bounds check by
\* List.Kill; the handlers that call it are enabled only where the index
\* expression does not panic.
SelectionInRange(its, fm, sel) ==
  NumInstances(its, fm) = 0 \/ (sel >= 0 /\ sel < NumInstances(its, fm))

Up(its, fm, sel) ==
  LET n == NumInstances(its, fm)
  IN  IF n = 0 THEN sel ELSE IF sel > 0 THEN sel - 1 ELSE n - 1

Down(its, fm, sel) ==
  LET n == NumInstances(its, fm)
  IN  IF n = 0 THEN sel ELSE IF sel < n - 1 THEN sel + 1 ELSE 0

\* ToggleArchiveView: between the archived view and the view of all
ToggleArchiveView(fm) == IF fm = FilterArchived THEN FilterAll ELSE FilterArchived

RemoveAt(its, k) == SubSeq(its, 1, k - 1) \o SubSeq(its, k + 1, Len(its))

\* List.Kill: the selected visible instance leaves items, the selection moves
\* up when it was the last visible one, and the instance is killed.
ListKill(its, fm, sel, w, f) ==
  LET v == GetVisibleInstances(its, fm)
  IN  IF Len(v) = 0
        THEN [items |-> its, sel |-> sel, w |-> w, errs |-> {}]
        ELSE LET pos  == v[sel + 1]
                 k    == Kill(w, its[pos], f)
                 its1 == RemoveAt(its, pos)
             IN  [items |-> its1,
                  sel |-> IF sel = Len(v) - 1 THEN Up(its1, fm, sel) ELSE sel,
                  w |-> k.w, errs |-> k.errs]

\* RemoveSelectedFromView
RemoveSelectedFromView(its, fm, sel) ==
  IF sel >= NumInstances(its, fm) - 1 /\ sel > 0 THEN sel - 1 ELSE sel

TitlesOf(its) == {its[k].Title : k \in 1 .. Len(its)}

\* The orders in which a Go map range can deliver the titles of S.
Orders(S) ==
  {o \in [1 .. Cardinality(S) -> S] :
     \A a, b \in 1 .. Cardinality(S) : a # b => o[a] # o[b]}

\* diskMap[title]: the last disk instance of that title
DiskMap(diskInsts, t) ==
  diskInsts[CHOOSE k \in 1 .. Len(diskInsts) :
              /\ diskInsts[k].Title = t
              /\ \A j \in k + 1 .. Len(diskInsts) : diskInsts[j].Title # t]

\* A merge that would drop every instance without a disk record, alive or not.
MergeInstancesByRecordOnly(its, sel, diskInsts, order, w) ==
  LET diskTitles == TitlesOf(diskInsts)
      its1       == its \o [k \in 1 .. Len(order) |-> DiskMap(diskInsts, order[k])]
      newItems   == SelectSeq(its1, LAMBDA m : m.Title \in diskTitles)
      changed    == Len(order) > 0 \/ Len(newItems) < Len(its1)
  IN  [items |-> IF changed THEN newItems ELSE its,
       sel |-> IF changed /\ sel >= Len(newItems)
                 THEN (IF Len(newItems) = 0 THEN 0 ELSE Len(newItems) - 1)
                 ELSE sel,
       changed |-> changed]

\* A merge that would append every disk instance, known to the list or not.
MergeInstancesAppendsAll(its, sel, diskInsts, order, w) ==
  LET newItems == its \o diskInsts
      changed  == Len(diskInsts) > 0
  IN  [items |-> newItems, sel |-> sel, changed |-> changed]

\* List.MergeInstances: disk instances of unknown title are appended (in map
\* order); an instance of the list stays when its title is on disk or its
\* session is alive; the selection is clamped when anything changed.
MergeInstances(its, sel, diskInsts, order, w) ==
  LET diskTitles == TitlesOf(diskInsts)
      its1       == its \o [k \in 1 .. Len(order) |-> DiskMap(diskInsts, order[k])]
      newItems   == SelectSeq(its1, LAMBDA m : m.Title \in diskTitles \/ SessionAlive(w, m))
      changed    == Len(order) > 0 \/ Len(newItems) < Len(its1)
  IN  [items |-> IF changed THEN newItems ELSE its,
       sel |-> IF changed /\ sel >= Len(newItems)
                 THEN (IF Len(newItems) = 0 THEN 0 ELSE Len(newItems) - 1)
                 ELSE sel,
       changed |-> changed]

----
\* home, app/app.go

stateDefault == "stateDefault"
stateNew == "stateNew"
stateLoading == "stateLoading"

\* What the last handler was and returned: its error, the external commands
\* that failed in it and, for a tick that merged, the titles the list had
\* and the titles that were loaded from disk.
Msg(op, err, fails, had, titles) ==
  [op |-> op, err |-> err, fails |-> fails, had |-> had, titles |-> titles,
   setRunning |-> {}, setReady |-> {}, tapped |-> {}]
\* The history value of the handlers no property looks at.
Quiet == Msg("other", "nil", {}, {}, {})

\* The external commands that can fail in Kill, in Pause, when instances are
\* restored from records, and in Start / Resume (one failing step of the
\* start sequence, alone or with a failure of the clean-up it triggers).
KillFails == SUBSET {"kill", "remove", "open", "branch"}
PauseFails == {{}, {"commit"}, {"isdirty"}, {"remove"}, {"prune"}}
LoadFails == {{}, {"pty"}}
StartFails ==
  {p \cup c : p \in {{}, {"findrepo"}, {"setup"}, {"spawn"}, {"timeout"},
                     {"timeout", "late"}, {"pty"}, {"pty", "kill"}},
              c \in {{}, {"remove"}}}
ResumeFails == {f \in StartFails : "findrepo" \notin f}

\* The rare events of a behaviour: a handler run in which an external
\* command fails, a change made from outside the process (a session ends, a
\* branch is checked out, another process writes the state file, the process
\* crashes), a pane found idle or at an unanswered prompt by the tick, a
\* rename, a Resume of an instance that is not paused, and the process being
\* run with --autoyes. At most MaxEvents of them happen in one
\* behaviour.
MaxEvents == 1
Allowed(f) == f = {} \/ events < MaxEvents
Charge(f) == events' = IF f = {} THEN events ELSE events + 1

\* m.list.GetInstances()[m.list.NumInstances()-1], as a position in items
NewTarget == NumInstances(items, filterMode)
----
\* Key and message handlers of home.Update / home.handleKeyPress

\* keys.KeyNew
KeyNew ==
  /\ homeState = stateDefault
  /\ nextId <= MaxIds
  /\ LET its == Append(items, NewInstance(nextId, SessionTypeZellij))
     IN  /\ items' = its
         /\ selectedIdx' = NumInstances(its, filterMode) - 1
  /\ nextId' = nextId + 1
  /\ homeState' = stateNew
  /\ lastMsg' = Quiet
  /\ UNCHANGED <<storeVars, auxVars, autoYes, filterMode, stateData, disk, diskNewer, world, inflight, events>>

\* stateNew, tea.KeyRunes
StateNewKeyRunes(r) ==
  /\ homeState = stateNew
  /\ NewTarget >= 1
  /\ Len(items[NewTarget].Title) < MaxTitleLen
  /\ LET i == items[NewTarget]
     IN  items' = IF Len(i.Title) >= 32 \/ i.started
                    THEN items
                    ELSE [items EXCEPT ![NewTarget].Title = Append(@, r)]
  /\ lastMsg' = Quiet
  /\ UNCHANGED <<storeVars, auxVars, autoYes, selectedIdx, filterMode, homeState, stateData, disk,
                 diskNewer, world, nextId, inflight, events>>

\* stateNew, tea.KeyBackspace
StateNewKeyBackspace ==
  /\ homeState = stateNew
  /\ NewTarget >= 1
  /\ LET i == items[NewTarget]
     IN  items' = IF Len(i.Title) = 0 \/ i.started
                    THEN items
                    ELSE [items EXCEPT ![NewTarget].Title = SubSeq(@, 1, Len(@) - 1)]
  /\ lastMsg' = Quiet
  /\ UNCHANGED <<storeVars, auxVars, autoYes, selectedIdx, filterMode, homeState, stateData, disk,
                 diskNewer, world, nextId, inflight, events>>

\* stateNew, tea.KeyEnter with startInstanceAsync: the start runs to its end
\* and leaves loadingCompleteMsg{err} in flight.
StateNewKeyEnter ==
  /\ homeState = stateNew
  /\ NewTarget >= 1
  /\ IF Len(items[NewTarget].Title) = 0
       THEN /\ lastMsg' = Quiet
            /\ UNCHANGED <<items, world, homeState, inflight, events>>
       ELSE \E f \in StartFails :
              LET r == StartFirstTime(world, items[NewTarget], f)
              IN  /\ Allowed(f)
                  /\ Charge(f)
                  /\ items' = [items EXCEPT ![NewTarget] = r.i]
                  /\ world' = r.w
                  /\ homeState' = stateLoading
                  /\ inflight' = IF r.ok THEN "ok" ELSE "err"
                  /\ lastMsg' = Msg("Start", IF r.ok THEN "nil" ELSE "error", f, {}, {})
  /\ UNCHANGED <<storeVars, auxVars, autoYes, selectedIdx, filterMode, stateData, disk, diskNewer, nextId>>

\* stateNew, ctrl+c and tea.KeyEsc
StateNewKeyEsc ==
  /\ homeState = stateNew
  /\ SelectionInRange(items, filterMode, selectedIdx)
  /\ \E f \in KillFails :
       LET k == ListKill(items, filterMode, selectedIdx, world, f)
       IN  /\ Allowed(f)
           /\ Charge(f)
           /\ items' = k.items
           /\ selectedIdx' = k.sel
           /\ world' = k.w
  /\ homeState' = stateDefault
  /\ lastMsg' = Quiet
  /\ UNCHANGED <<storeVars, auxVars, autoYes, filterMode, stateData, disk, diskNewer, nextId, inflight>>

\* loadingCompleteMsg: after a failed start the selected instance is killed;
\* after a successful one the list is saved and then the last visible
\* instance gets AutoYes when the process runs with --autoyes.
LoadingComplete ==
  /\ inflight # "none"
  /\ inflight' = "none"
  /\ homeState' = stateDefault
  /\ lastMsg' = Quiet
  /\ IF inflight = "err"
       THEN /\ SelectionInRange(items, filterMode, selectedIdx)
            /\ \E f \in KillFails :
                 LET k == ListKill(items, filterMode, selectedIdx, world, f)
                 IN  /\ Allowed(f)
                     /\ Charge(f)
                     /\ items' = k.items
                     /\ selectedIdx' = k.sel
                     /\ world' = k.w
            /\ UNCHANGED <<stateData, disk, diskNewer>>
       ELSE /\ NewTarget >= 1
            /\ stateData' = SaveInstancesData(items)
            /\ disk' = SaveInstancesData(items)
            /\ diskNewer' = FALSE
            /\ items' = IF autoYes THEN [items EXCEPT ![NewTarget].AutoYes = TRUE] ELSE items
            /\ UNCHANGED <<selectedIdx, world, events>>
  /\ UNCHANGED <<storeVars, auxVars, autoYes, filterMode, nextId>>

\* saveDebounceMsg; the history keeps the titles of the list and the titles
\* the store held before the save.
SaveDebounce ==
  /\ stateData' = SaveInstancesData(items)
  /\ disk' = SaveInstancesData(items)
  /\ diskNewer' = FALSE
  /\ lastMsg' = Msg("Save", "nil", {}, TitlesOf(items), TitlesOf(disk))
  /\ UNCHANGED <<storeVars, auxVars, autoYes, items, selectedIdx, filterMode, homeState, world, nextId,
                 inflight, events>>

\* keys.KeyDown
KeyDown ==
  /\ homeState = stateDefault
  /\ selectedIdx' = Down(items, filterMode, selectedIdx)
  /\ lastMsg' = Quiet
  /\ UNCHANGED <<storeVars, auxVars, autoYes, items, filterMode, homeState, stateData, disk, diskNewer,
                 world, nextId, inflight, events>>

\* keys.KeyToggleArchive: the list switches between the active and the
\* archived view.
KeyToggleArchive ==
  /\ homeState = stateDefault
  /\ filterMode' = ToggleArchiveView(filterMode)
  /\ selectedIdx' = 0
  /\ lastMsg' = Quiet
  /\ UNCHANGED <<storeVars, auxVars, autoYes, items, homeState, stateData, disk, diskNewer, world,
                 nextId, inflight, events>>

\* keys.KeyCheckout: Pause of the selected instance
KeyCheckout ==
  /\ homeState = stateDefault
  /\ GetSelectedInstance(items, filterMode, selectedIdx) # 0
  /\ LET pos == GetSelectedInstance(items, filterMode, selectedIdx)
     IN  \E f \in PauseFails :
           LET r == Pause(world, items[pos], f)
           IN  /\ Allowed(f)
               /\ Charge(f)
               /\ items' = [items EXCEPT ![pos] = r.i]
               /\ world' = r.w
  /\ lastMsg' = Quiet
  /\ UNCHANGED <<storeVars, auxVars, autoYes, selectedIdx, filterMode, homeState, stateData, disk,
                 diskNewer, nextId, inflight>>

\* keys.KeyResume
KeyResume ==
  /\ homeState = stateDefault
  /\ GetSelectedInstance(items, filterMode, selectedIdx) # 0
  /\ LET pos == GetSelectedInstance(items, filterMode, selectedIdx)
     IN  \E f \in ResumeFails :
           LET r == Resume(world, items[pos], f)
               refused == IF ~items[pos].started \/ items[pos].Status # Paused
                            THEN {"refused"} ELSE {}
           IN  /\ Allowed(f \cup refused)
               /\ Charge(f \cup refused)
               /\ items' = [items EXCEPT ![pos] = r.i]
               /\ world' = r.w
               /\ lastMsg' = IF r.err THEN Msg("Resume", "error", f, {}, {}) ELSE Quiet
  /\ UNCHANGED <<storeVars, auxVars, autoYes, selectedIdx, filterMode, homeState, stateData, disk,
                 diskNewer, nextId, inflight>>

\* A killAction that would not look at the branch.
KillActionErrorNoBranchCheck(w, i) == IF ~i.started THEN "not started" ELSE "nil"

\* killAction, before anything is deleted: the error of GetGitWorktree for an
\* instance that is not started, the error for a branch that is checked out.
KillActionError(w, i) ==
  IF ~i.started THEN "not started"
  ELSE IF IsBranchCheckedOut(w, i) THEN "currently checked out"
  ELSE "nil"

\* keys.KeyKill with the overlay confirmed: killAction checks the branch,
\* calls Storage.DeleteInstance (which loads the records and saves the
\* cleaned list when a record fails to restore), then List.Kill.
KeyKill ==
  /\ homeState = stateDefault
  /\ GetSelectedInstance(items, filterMode, selectedIdx) # 0
  /\ LET i == items[GetSelectedInstance(items, filterMode, selectedIdx)]
     IN  IF KillActionError(world, i) # "nil"
           THEN /\ lastMsg' = Msg("KeyKill", KillActionError(world, i), {}, {}, {})
                /\ UNCHANGED <<items, selectedIdx, stateData, disk, diskNewer, world, events>>
         ELSE \E lf \in LoadFails, f \in KillFails :
                LET loaded  == LoadedFrom(world, stateData, lf)
                    cleaned == Len(loaded) < Len(stateData)
                    rest    == SelectSeq(loaded, LAMBDA m : m.Title # i.Title)
                    k       == ListKill(items, filterMode, selectedIdx, world, f)
                IN  IF i.Title \notin TitlesOf(loaded)
                      THEN /\ f = {}
                           /\ Allowed(lf)
                           /\ Charge(lf)
                           /\ lastMsg' = Msg("KeyKill", "instance not found", {}, {}, {})
                           /\ stateData' = IF cleaned THEN SaveInstancesData(loaded) ELSE stateData
                           /\ disk' = IF cleaned THEN SaveInstancesData(loaded) ELSE disk
                           /\ diskNewer' = IF cleaned THEN FALSE ELSE diskNewer
                           /\ UNCHANGED <<items, selectedIdx, world>>
                      ELSE /\ Allowed(f \cup lf)
                           /\ Charge(f \cup lf)
                           /\ stateData' = SaveInstancesData(rest)
                           /\ disk' = SaveInstancesData(rest)
                           /\ diskNewer' = FALSE
                           /\ items' = k.items
                           /\ selectedIdx' = k.sel
                           /\ world' = k.w
                           /\ lastMsg' = Msg("KeyKill", combineErrors(k.errs), f, {}, {})
  /\ UNCHANGED <<storeVars, auxVars, autoYes, filterMode, homeState, nextId, inflight>>

\* keys.KeyArchive in the active view, the overlay confirmed: archiveAction
KeyArchive ==
  /\ homeState = stateDefault
  /\ filterMode # FilterArchived
  /\ GetSelectedInstance(items, filterMode, selectedIdx) # 0
  /\ \E f \in PauseFails :
       LET pos == GetSelectedInstance(items, filterMode, selectedIdx)
           i   == items[pos]
           p   == IF i.Status # Paused THEN Pause(world, i, f)
                                       ELSE [err |-> FALSE, w |-> world, i |-> i]
           its == [items EXCEPT ![pos] = [p.i EXCEPT !.Archived = TRUE]]
       IN  /\ Allowed(f)
           /\ Charge(f)
           /\ world' = p.w
           /\ IF p.err
                THEN /\ items' = [items EXCEPT ![pos] = p.i]
                     /\ UNCHANGED <<selectedIdx, stateData, disk, diskNewer>>
              ELSE IF ~HasTitle(stateData, i.Title)
                THEN /\ items' = its
                     /\ UNCHANGED <<selectedIdx, stateData, disk, diskNewer>>
              ELSE /\ items' = its
                   /\ stateData' = SetArchived(stateData, i.Title, TRUE)
                   /\ disk' = SetArchived(stateData, i.Title, TRUE)
                   /\ diskNewer' = FALSE
                   /\ selectedIdx' = RemoveSelectedFromView(its, filterMode, selectedIdx)
  /\ lastMsg' = Quiet
  /\ UNCHANGED <<storeVars, auxVars, autoYes, filterMode, homeState, nextId, inflight>>

\* keys.KeyArchive in the archived view, the overlay confirmed: restoreAction
KeyUnarchive ==
  /\ homeState = stateDefault
  /\ filterMode = FilterArchived
  /\ GetSelectedInstance(items, filterMode, selectedIdx) # 0
  /\ LET pos == GetSelectedInstance(items, filterMode, selectedIdx)
         its == [items EXCEPT ![pos].Archived = FALSE]
     IN  /\ items' = its
         /\ IF ~HasTitle(stateData, items[pos].Title)
              THEN UNCHANGED <<selectedIdx, stateData, disk, diskNewer>>
              ELSE /\ stateData' = SetArchived(stateData, items[pos].Title, FALSE)
                   /\ disk' = SetArchived(stateData, items[pos].Title, FALSE)
                   /\ diskNewer' = FALSE
                   /\ selectedIdx' = RemoveSelectedFromView(its, filterMode, selectedIdx)
  /\ lastMsg' = Quiet
  /\ UNCHANGED <<storeVars, auxVars, autoYes, filterMode, homeState, world, nextId, inflight, events>>

\* keys.KeyRename and the submitted overlay of stateRename
KeyRename(newTitle) ==
  /\ homeState = stateDefault
  /\ GetSelectedInstance(items, filterMode, selectedIdx) # 0
  /\ events < MaxEvents
  /\ events' = events + 1
  /\ LET pos == GetSelectedInstance(items, filterMode, selectedIdx)
         its == [items EXCEPT ![pos] = Rename(items[pos], newTitle)]
     IN  IF ~RenameOk(newTitle)
           THEN UNCHANGED <<items, stateData, disk, diskNewer>>
           ELSE /\ items' = its
                /\ stateData' = SaveInstancesData(its)
                /\ disk' = SaveInstancesData(its)
                /\ diskNewer' = FALSE
  /\ lastMsg' = Msg("Rename", IF RenameOk(newTitle) THEN "nil" ELSE "error", {}, {}, {})
  /\ UNCHANGED <<storeVars, auxVars, autoYes, selectedIdx, filterMode, homeState, world, nextId, inflight>>

----
\* Orphan recovery, unnamed/part_010 and home.handleImportOrphanedSessions

\* zellij.ListOrphanedSessions: the live zellij sessions whose name, less the
\* prefix, is not among the tracked titles.
ListOrphanedSessions(w, trackedTitles) ==
  {s \in w.sessions :
     /\ s.kind = SessionTypeZellij
     /\ HasPrefix(s.name, ZellijPrefix)
     /\ TrimPrefix(s.name, ZellijPrefix) \notin trackedTitles}

\* NewInstanceFromOrphan of the metadata RecoverMetadata reads from the
\* session: the title is the session name less the prefix, the worktree the
\* directory the session runs in, the status Running.
NewInstanceFromOrphan(s) ==
  [id |-> s.id, Title |-> TrimPrefix(s.name, ZellijPrefix),
   name |-> TrimPrefix(s.name, ZellijPrefix), Status |-> Running,
   started |-> TRUE, Archived |-> FALSE, AutoYes |-> FALSE,
   SessionType |-> SessionTypeZellij,
   session |-> TRUE, ptmx |-> TRUE, attachCh |-> FALSE, gitWorktree |-> TRUE]

\* The longest list the model lets an import build (GlobalInstanceLimit, 50,
\* is out of reach).
MaxInstances == 2

\* The external commands that can fail in an import: the PTY of Restore.
ImportFails == {{}, {"pty"}}

\* keys.KeyImport: every orphan is turned into an instance and appended (in
\* the order "zellij list-sessions" printed them), then the list is saved.
KeyImport ==
  /\ homeState = stateDefault
  /\ Len(items) + Cardinality(ListOrphanedSessions(world, TitlesOf(items))) <= MaxInstances
  /\ LET orphans == ListOrphanedSessions(world, TitlesOf(items))
     IN  IF orphans = {}
           THEN /\ lastMsg' = Quiet
                /\ UNCHANGED <<items, stateData, disk, diskNewer, events>>
           ELSE \E f \in ImportFails, order \in Orders(orphans) :
                  LET new == IF "pty" \in f THEN <<>>
                             ELSE [k \in 1 .. Len(order) |->
                                     [NewInstanceFromOrphan(order[k]) EXCEPT !.AutoYes = autoYes]]
                      its == items \o new
                  IN  /\ Allowed(f)
                      /\ Charge(f)
                      /\ items' = its
                      /\ IF new = <<>>
                           THEN UNCHANGED <<stateData, disk, diskNewer>>
                           ELSE /\ stateData' = SaveInstancesData(its)
                                /\ disk' = SaveInstancesData(its)
                                /\ diskNewer' = FALSE
                      /\ lastMsg' = Msg("Import", IF new = <<>> THEN "error" ELSE "nil", f,
                                        TitlesOf(items), TitlesOf(new))
  /\ UNCHANGED <<storeVars, auxVars, autoYes, selectedIdx, filterMode, homeState, world, nextId, inflight>>

----
(***************************************************************************)
(* PART III - interactive attach of one backend session                    *)
(*   zellij: ZellijSession.Attach / Detach / DetachSafely / Restore        *)
(*   docker: DockerSession.Attach / Detach / DetachSafely / Restore        *)
(* The handle is that of a started instance.  Goroutines are modelled by   *)
(* their position; a PTY is a number, open while it is in att.open.        *)
(***************************************************************************)
\* Number of Attach calls one behaviour makes, and the last PTY it opens.
MaxAttaches == 2
MaxPty == 2

BackendZellij == "zellij"
BackendDocker == "docker"

\* The byte the stdin goroutines look for.
CtrlQ == 17
\* Any other byte ('x').
OtherByte == 120
\* What one os.Stdin.Read returns: Ctrl-Q alone, other input, Ctrl-Q inside
\* a longer read (pasted or buffered input).
Chunks == {<<CtrlQ>>, <<OtherByte>>, <<OtherByte, CtrlQ>>, <<CtrlQ, OtherByte>>}

HasCtrlQ(c) == \E k \in 1 .. Len(c) : c[k] = CtrlQ

NoRead == [chunk |-> <<>>, early |-> FALSE, did |-> "none"]

\* A reader goroutine: id names its start (the PTY opened then, which also
\* names its context); pos is "top" at the select of its loop and "read"
\* inside Read of PTY pty.
ReaderTask(id, pos, pty) == [id |-> id, pos |-> pos, pty |-> pty]

\* The handle of a started session: one PTY, read by the background reader.
Handle(kind) ==
  [kind      |-> kind,
   alive     |-> TRUE,      \* the zellij session / the container exists
   ptmx      |-> 1,         \* the ptmx field: 0 is nil
   open      |-> {1},       \* the PTYs that are open
   nextPty   |-> 2,
   reader    |-> 1,         \* PTY the background reader reads, 0: stopped
   attachPty |-> 0,         \* history: the PTY the last Attach fanned
   ch        |-> "none",    \* the channel the last Attach returned
   chField   |-> FALSE,     \* the attachCh field is not nil
   closes    |-> 0,         \* history: close() calls on that channel
   cancelled |-> FALSE,     \* ctx of the attach is cancelled
   out       |-> "none",    \* PTY -> stdout goroutine
   outPty    |-> 0,         \* PTY its io.Copy reads
   leaked    |-> 0,         \* PTY -> stdout goroutines of earlier attaches
   inp       |-> "none",    \* stdin -> PTY goroutine
   safely    |-> "none",    \* a DetachSafely call in progress
   timeout   |-> FALSE,     \* 50 ms have passed since Attach
   lastRead  |-> NoRead,    \* history: the last read of stdin
   attaches  |-> 0,
   tasks     |-> {ReaderTask(1, "read", 1)},  \* the reader goroutines
   rctx      |-> 1,         \* the context in the ptyReaderCtx field
   done      |-> {},        \* the reader contexts that are cancelled
   old       |-> {},        \* history: readers started before a call returned
   lastRet   |-> "none"]    \* history: the call that returned last

\* The attach model at rest (specifications of Parts I and II).
NoAttach == Handle(BackendZellij)

ProcessRuns == att.inp # "panicked"

\* ZellijSession.stopPTYReader: cancel the context unless ptyReaderCancel
\* is nil, and set it to nil.
stopPTYReader(a) ==
  IF a.reader # 0 THEN [a EXCEPT !.done = @ \cup {a.rctx}, !.reader = 0] ELSE a

\* A call returns: the readers started before it, less those in keep, are
\* the ones that should be gone.
Returned(a, call, keep) ==
  [a EXCEPT !.old = @ \cup ({t.id : t \in a.tasks} \ keep), !.lastRet = call]

\* Restore: a new PTY on the living session, read by a new background
\* reader.  zellij: startPTYReader cancels the reader whose cancel function
\* it holds and starts a goroutine on the new PTY and a new context.
\* docker: startExecSession replaces the ptyReaderCtx field and starts
\* readPTYToBuffer.
Restore(a) ==
  IF a.alive
    THEN [err |-> FALSE,
          a |-> Returned(
                  [a EXCEPT !.ptmx = a.nextPty, !.open = @ \cup {a.nextPty},
                            !.reader = a.nextPty, !.nextPty = @ + 1,
                            !.done = IF a.kind = BackendZellij /\ a.reader # 0
                                       THEN @ \cup {a.rctx} ELSE @,
                            !.rctx = a.nextPty,
                            !.tasks = @ \cup {ReaderTask(a.nextPty, "top", 0)}],
                  "Restore", {a.nextPty})]
    ELSE [err |-> TRUE, a |-> a]

\* Fields every Attach sets when it starts the two goroutines.
Fan(a) ==
  [a EXCEPT !.ch = "open", !.chField = TRUE, !.closes = 0,
            !.cancelled = FALSE, !.out = "spawned", !.outPty = 0,
            !.leaked = @ + (IF a.out \in {"spawned", "copying"} THEN 1 ELSE 0),
            !.inp = "reading", !.timeout = FALSE, !.lastRead = NoRead,
            !.attachPty = a.ptmx, !.attaches = @ + 1]

\* close(attachCh) on the field.
CloseAttachCh(a) ==
  [a EXCEPT !.ch = "closed", !.closes = @ + 1]

ZellijAttach ==
  /\ ProcessRuns
  /\ att.kind = BackendZellij
  /\ att.attaches < MaxAttaches
  /\ att.inp \in {"none", "done"} /\ att.safely = "none"
  /\ att' = Fan(stopPTYReader(att))
  /\ UNCHANGED attRest

DockerAttach ==
  /\ ProcessRuns
  /\ att.kind = BackendDocker
  /\ att.attaches < MaxAttaches
  /\ att.inp \in {"none", "done"}
  /\ att' = IF att.ptmx # 0
              THEN Fan(att)
              ELSE LET r == Restore(att) IN
                   IF r.err
                     THEN [att EXCEPT !.ch = "none", !.chField = TRUE, !.closes = 0,
                                      !.cancelled = FALSE, !.attaches = @ + 1]
                     ELSE Fan(r.a)
  /\ UNCHANGED attRest

\* The PTY -> stdout goroutine starts: io.Copy(os.Stdout, ptmx) reads the
\* ptmx field when it gets to run.
StdoutCopyStarts ==
  /\ ProcessRuns
  /\ att.out = "spawned"
  /\ att' = IF att.ptmx = 0
              THEN [att EXCEPT !.out = "done"]
              ELSE [att EXCEPT !.out = "copying", !.outPty = att.ptmx]
  /\ UNCHANGED attRest

\* io.Copy returns: its PTY was closed or the session side ended.
StdoutCopyEnds ==
  /\ ProcessRuns
  /\ att.out = "copying"
  /\ att.outPty \notin att.open \/ ~att.alive
  /\ att' = [att EXCEPT !.out = "done"]
  /\ UNCHANGED attRest

\* 50 ms pass after Attach (zellij: the timer goroutine closes timeoutCh).
Elapse50ms ==
  /\ ProcessRuns
  /\ att.inp = "reading"
  /\ ~att.timeout
  /\ att' = [att EXCEPT !.timeout = TRUE]
  /\ UNCHANGED attRest

ZellijStdinRead(c) ==
  /\ ProcessRuns
  /\ att.kind = BackendZellij
  /\ att.inp = "reading"
  /\ att' = IF ~att.timeout
              THEN [att EXCEPT !.lastRead = [chunk |-> c, early |-> TRUE, did |-> "discarded"]]
            ELSE IF Len(c) = 1 /\ c[1] = CtrlQ
              THEN [att EXCEPT !.inp = "detach",
                               !.lastRead = [chunk |-> c, early |-> FALSE, did |-> "detach"]]
              ELSE [att EXCEPT !.lastRead = [chunk |-> c, early |-> FALSE, did |-> "forwarded"]]
  /\ UNCHANGED attRest

DockerStdinRead(c) ==
  /\ ProcessRuns
  /\ att.kind = BackendDocker
  /\ att.inp = "reading"
  /\ att' = IF HasCtrlQ(c)
              THEN [CloseAttachCh(att) EXCEPT
                      !.cancelled = TRUE, !.inp = "done",
                      !.lastRead = [chunk |-> c, early |-> ~att.timeout, did |-> "detach"]]
              ELSE [att EXCEPT !.lastRead = [chunk |-> c, early |-> ~att.timeout, did |-> "forwarded"]]
  /\ UNCHANGED attRest

\* The docker stdin goroutine finds its context cancelled at the top of
\* its loop.
DockerStdinStops ==
  /\ ProcessRuns
  /\ att.kind = BackendDocker
  /\ att.inp = "reading"
  /\ att.cancelled
  /\ att' = [att EXCEPT !.inp = "done"]
  /\ UNCHANGED attRest

\* ZellijSession.Detach, up to wg.Wait: close the PTY, Restore.  An error
\* panics, and the deferred function closes the channel on the way out.
ZellijDetach ==
  /\ ProcessRuns
  /\ att.inp = "detach"
  /\ LET closed == [att EXCEPT !.open = @ \ {att.ptmx}]
         r == Restore(closed)
         panic == att.ptmx \notin att.open \/ r.err
     IN att' = IF panic
                 THEN [(IF att.chField THEN CloseAttachCh(closed) ELSE closed)
                         EXCEPT !.chField = FALSE, !.inp = "panicked"]
                 ELSE [r.a EXCEPT !.cancelled = TRUE, !.inp = "wait"]
  /\ UNCHANGED attRest

\* ZellijSession.Detach from wg.Wait on: the stdout goroutine has ended,
\* the deferred function closes the channel.
ZellijDetachReturns ==
  /\ ProcessRuns
  /\ att.inp = "wait"
  /\ att.out = "done"
  /\ att' = IF att.chField
              THEN Returned([CloseAttachCh(att) EXCEPT !.chField = FALSE, !.inp = "done"],
                            "Detach", {att.rctx})
              ELSE [att EXCEPT !.inp = "panicked"]
  /\ UNCHANGED attRest

\* ZellijSession.DetachSafely, up to wg.Wait.
ZellijDetachSafely ==
  /\ ProcessRuns
  /\ att.kind = BackendZellij
  /\ att.safely = "none"
  /\ att.chField
  /\ att' = [CloseAttachCh(stopPTYReader(att)) EXCEPT
               !.open = @ \ {att.ptmx}, !.ptmx = 0,
               !.chField = FALSE, !.cancelled = TRUE, !.safely = "wait"]
  /\ UNCHANGED attRest

ZellijDetachSafelyReturns ==
  /\ ProcessRuns
  /\ att.safely = "wait"
  /\ att.out \in {"none", "done"}
  /\ att' = Returned([att EXCEPT !.safely = "none"], "DetachSafely", {})
  /\ UNCHANGED attRest

\* DockerSession.DetachSafely (Detach calls it): cancel, close the PTY,
\* cancel the reader, docker stop.  The channel is left alone.
DockerDetachSafely ==
  /\ ProcessRuns
  /\ att.kind = BackendDocker
  /\ att.attaches > 0
  /\ att' = Returned([att EXCEPT !.cancelled = TRUE, !.open = @ \ {att.ptmx},
                                 !.ptmx = 0, !.reader = 0, !.done = @ \cup {att.rctx}],
                       "DetachSafely", {})
  /\ UNCHANGED attRest

\* The zellij session is killed / the container is removed from outside.
BackendSessionEnds ==
  /\ ProcessRuns
  /\ att.alive
  /\ att.attaches > 0
  /\ att' = [att EXCEPT !.alive = FALSE]
  /\ UNCHANGED attRest

\* ZellijSession.DetachSafely on a handle that is not attached (Instance.Pause
\* calls it): attachCh is nil and it returns at once.
ZellijDetachSafelyNotAttached ==
  /\ ProcessRuns
  /\ att.kind = BackendZellij
  /\ att.safely = "none" /\ att.inp \in {"none", "done"}
  /\ ~att.chField
  /\ att.lastRet # "DetachSafely"
  /\ att' = Returned(att, "DetachSafely", {})
  /\ UNCHANGED attRest

\* Restore on a handle that is not attached (Instance.Resume calls it).
RestoreDetached ==
  /\ ProcessRuns
  /\ att.safely = "none" /\ att.inp \in {"none", "done"}
  /\ att.nextPty <= MaxPty
  /\ att.alive
  /\ att' = Restore(att).a
  /\ UNCHANGED attRest

\* ZellijSession.Close / DockerSession.Close on a handle that is not
\* attached: the PTY is closed, the session killed / the container removed.
Close ==
  /\ ProcessRuns
  /\ att.safely = "none" /\ att.inp \in {"none", "done"}
  /\ att.alive
  /\ att' = IF att.kind = BackendZellij
              THEN Returned([stopPTYReader(att) EXCEPT
                               !.open = @ \ {att.ptmx}, !.ptmx = 0, !.alive = FALSE],
                            "Close", {})
              ELSE Returned([att EXCEPT
                               !.cancelled = IF att.ptmx # 0 THEN TRUE ELSE @,
                               !.open = @ \ {att.ptmx}, !.ptmx = 0,
                               !.reader = IF att.ptmx # 0 THEN 0 ELSE @,
                               !.done = IF att.ptmx # 0 THEN @ \cup {att.rctx} ELSE @,
                               !.alive = FALSE],
                            "Close", {})
  /\ UNCHANGED attRest

\* A reader goroutine at the select of its loop: it returns when its
\* context is done, and calls Read otherwise.  The zellij goroutine uses the
\* context and the PTY it captured when it was started, readPTYToBuffer
\* reads the fields d.ptyReaderCtx and d.ptmx; Read on a nil file fails.
PTYReaderLoops(t) ==
  /\ ProcessRuns
  /\ t \in att.tasks /\ t.pos = "top"
  /\ LET ctx == IF att.kind = BackendZellij THEN t.id ELSE att.rctx
         ptmx == IF att.kind = BackendZellij THEN t.id ELSE att.ptmx
     IN  att' = IF ctx \in att.done \/ ptmx = 0
                  THEN [att EXCEPT !.tasks = @ \ {t}]
                  ELSE [att EXCEPT !.tasks = (@ \ {t}) \cup {ReaderTask(t.id, "read", ptmx)}]
  /\ UNCHANGED attRest

\* Read returns in a reader goroutine: with an error when the PTY is closed
\* or the session has ended, with output (written to the terminal buffer)
\* otherwise.
PTYReaderReadReturns(t) ==
  /\ ProcessRuns
  /\ t \in att.tasks /\ t.pos = "read"
  /\ att' = IF t.pty \notin att.open \/ ~att.alive
              THEN [att EXCEPT !.tasks = @ \ {t}]
              ELSE [att EXCEPT !.tasks = (@ \ {t}) \cup {ReaderTask(t.id, "top", 0)}]
  /\ UNCHANGED attRest

----
(***************************************************************************)
(* PART IV - diff statistics of one instance                               *)
(*   Instance.SetStatus / UpdateDiffStats / ShouldUpdateDiff               *)
(*   GitWorktree.Diff / diffUncached, ParallelUpdateDiffStats,             *)
(*   BackgroundUpdateDiffStats                                             *)
(* Times are seconds; the zero time.Time is ZeroTime.                      *)
(***************************************************************************)
\* Last second of the clock, and the seconds between two of its readings.
MaxNow == 45
ClockStep == 5

ZeroTime == 0
\* ShouldUpdateDiff: 30*time.Second and 10*time.Second
DiffInterval == 30
ActivityDelay == 10
defaultDiffCacheDuration == 5

\* now.Sub(t); the zero time lies further back than any duration.
Sub(now, t) == IF t = ZeroTime THEN MaxNow + DiffInterval ELSE now - t

\* DiffStats: nil, no changes, changes, or Error set to a message.
GitCommandFailed == "git command failed"
BaseCommitNotSet == "base commit SHA not set"
IsEmpty(stats) == stats \in {"empty", GitCommandFailed, BaseCommitNotSet}

\* What the git commands of one call do: add -N, diff <sha>, status.
GitRuns == [addFails : BOOLEAN, diff : {"empty", "changes", GitCommandFailed},
            dirty : {"clean", "dirty", GitCommandFailed}]

\* git diff <baseCommitSHA>; with the empty string for the revision the
\* command fails.
runGitDiff(d, g) == IF d.baseSet THEN g.diff ELSE GitCommandFailed

diffUncached(d, g) == IF g.addFails THEN GitCommandFailed ELSE runGitDiff(d, g)

\* GitWorktree.Diff: the stats and the worktree's cache afterwards.
Diff(d, g) ==
  LET valid == d.cached # "nil" /\ d.now - d.cacheTime < defaultDiffCacheDuration
      fresh == diffUncached(d, g)
  IN IF valid /\ (~IsEmpty(d.cached) \/ g.dirty = "clean")
       THEN [stats |-> d.cached, d |-> d]
       ELSE [stats |-> fresh, d |-> [d EXCEPT !.cached = fresh, !.cacheTime = d.now]]

UpdateDiffStats(d, g) ==
  IF ~d.started THEN [d EXCEPT !.diffStats = "nil", !.ret = "nil"]
  ELSE IF d.Status = Paused THEN [d EXCEPT !.ret = "nil"]
  ELSE LET r == Diff(d, g) IN
       IF r.stats \in {GitCommandFailed, BaseCommitNotSet}
         THEN IF r.stats = BaseCommitNotSet
                THEN [r.d EXCEPT !.diffStats = "nil", !.ret = "nil"]
                ELSE [r.d EXCEPT !.ret = "error"]
         ELSE [r.d EXCEPT !.diffStats = r.stats, !.lastDiffUpdate = d.now, !.ret = "nil"]

ShouldUpdateDiffNoActivityCheck(d) ==
  IF ~d.started \/ d.Status = Paused THEN FALSE
  ELSE IF d.lastDiffUpdate # ZeroTime /\ Sub(d.now, d.lastDiffUpdate) < DiffInterval THEN FALSE
  ELSE TRUE

ShouldUpdateDiff(d) ==
  IF ~d.started \/ d.Status = Paused THEN FALSE
  ELSE IF d.lastDiffUpdate # ZeroTime /\ Sub(d.now, d.lastDiffUpdate) < DiffInterval THEN FALSE
  ELSE IF d.lastActivity # ZeroTime /\ Sub(d.now, d.lastActivity) < ActivityDelay THEN FALSE
  ELSE TRUE

NoAsk == [asked |-> FALSE, result |-> FALSE, sinceDiff |-> 0, sinceActivity |-> 0]

\* A new instance that was not started yet; kind "orphan" is the instance
\* NewInstanceFromOrphan builds: started, no base commit, no SetStatus call.
NoDiff ==
  [started |-> FALSE, Status |-> Ready, baseSet |-> FALSE, diffStats |-> "nil",
   lastDiffUpdate |-> ZeroTime, lastActivity |-> ZeroTime,
   cached |-> "nil", cacheTime |-> ZeroTime, now |-> ClockStep,
   ret |-> "none", should |-> NoAsk, upd |-> "none"]

FromOrphan == [NoDiff EXCEPT !.started = TRUE, !.Status = Running]

Forget(d) == [d EXCEPT !.ret = "none", !.should = NoAsk, !.upd = "none"]

\* Start / Resume end: Setup has computed the base commit, SetStatus(Running).
DiffInstanceStarts ==
  /\ ~dif.started
  /\ dif' = [Forget(dif) EXCEPT !.started = TRUE, !.baseSet = TRUE,
                                !.Status = Running, !.lastActivity = dif.now]
  /\ UNCHANGED difRest

DiffClock ==
  /\ dif.now + ClockStep <= MaxNow
  /\ dif' = [Forget(dif) EXCEPT !.now = @ + ClockStep]
  /\ UNCHANGED difRest

\* The tick's SetStatus(Running / Ready), Pause's SetStatus(Paused).
SetStatus(s) ==
  /\ dif.started
  /\ dif' = [Forget(dif) EXCEPT !.Status = s, !.lastActivity = dif.now]
  /\ UNCHANGED difRest

ParallelUpdateDiffStats(g) ==
  /\ dif.started /\ dif.Status # Paused
  /\ dif' = UpdateDiffStats([dif EXCEPT !.should = NoAsk], g)
  /\ UNCHANGED difRest

BackgroundUpdateDiffStats(g) ==
  /\ LET asked == [dif EXCEPT !.ret = "none",
                              !.should = [asked |-> TRUE, result |-> ShouldUpdateDiff(dif),
                                          sinceDiff |-> Sub(dif.now, dif.lastDiffUpdate),
                                          sinceActivity |-> Sub(dif.now, dif.lastActivity)]]
     IN dif' = IF asked.should.result THEN UpdateDiffStats(asked, g) ELSE asked
  /\ UNCHANGED difRest

----
\* The metadata tick as the instance sees it, app.go (tickUpdateMetadataMessage)

\* The clock of a run without end: time stamps are kept relative to a window
\* of MaxNow seconds.  Once the clock has reached MaxNow the time stamps
\* move back instead; a time stamp that leaves the window lies further back
\* than DiffInterval, which is all that the comparisons look at.
Shift(t) ==
  IF t = ZeroTime THEN ZeroTime
  ELSE IF t - ClockStep < ClockStep THEN ClockStep ELSE t - ClockStep

Elapse(d) ==
  IF d.now + ClockStep <= MaxNow
    THEN [d EXCEPT !.now = @ + ClockStep]
    ELSE [d EXCEPT !.lastDiffUpdate = Shift(@), !.lastActivity = Shift(@),
                   !.cacheTime = Shift(@)]

\* What HasUpdated reports for the pane.
PaneUpdates == {"updated", "idle", "prompt"}

\* tickUpdateMetadataMessage, ClockStep seconds or less after the previous
\* one (tickUpdateMetadataCmd sleeps 500 ms): ParallelUpdate skips an
\* instance that is not started or is paused; SetStatus(Running) for a
\* changed pane, TapEnter for a prompt, SetStatus(Ready) otherwise; then
\* ParallelUpdateDiffStats.
MetadataTick(upd, g) ==
  /\ LET t == Elapse(Forget(dif))
         polled == t.started /\ t.Status # Paused
         s == IF ~polled THEN t
              ELSE IF upd = "updated"
                THEN [t EXCEPT !.Status = Running, !.lastActivity = t.now, !.upd = upd]
              ELSE IF upd = "prompt" THEN [t EXCEPT !.upd = upd]
              ELSE [t EXCEPT !.Status = Ready, !.lastActivity = t.now, !.upd = upd]
     IN  dif' = IF polled THEN UpdateDiffStats(s, g) ELSE s
  /\ UNCHANGED difRest

\* Instance.Pause ends with SetStatus(Paused), Instance.Resume with
\* SetStatus(Running).
DiffPause ==
  /\ dif.started /\ dif.Status # Paused
  /\ dif' = [Forget(dif) EXCEPT !.Status = Paused, !.lastActivity = dif.now]
  /\ UNCHANGED difRest

DiffResume ==
  /\ dif.started /\ dif.Status = Paused
  /\ dif' = [Forget(dif) EXCEPT !.Status = Running, !.lastActivity = dif.now]
  /\ UNCHANGED difRest

----
(***************************************************************************)
(* PART VI - session names: toClaudeSquadZellijName applied to a string,   *)
(* and to its own result                                                   *)
(***************************************************************************)
\* Longest string handed to the function, and how often it is applied.
MaxNameLen == 3
MaxApplications == 2

\* The symbols of the strings: a letter, white space, the dot, the
\* underscore and the letters of the prefix.
NameSymbols == {"a", " ", "\t", ".", "_", "claudesquad"}
Names == UNION {[1 .. n -> NameSymbols] : n \in 0 .. MaxNameLen}

\* str: the string given; results: toClaudeSquadZellijName(str), then the
\* function applied to that result, and so on.
NameOf(str) == [str |-> str, results |-> <<>>]
NoName == NameOf(<<>>)

\* The places of s where prefix begins.
Occurrences(s, prefix) ==
  {k \in 1 .. Len(s) - Len(prefix) + 1 : SubSeq(s, k, k + Len(prefix) - 1) = prefix}

\* newZellijSession computes sanitizedName from the name it is given; the
\* first call gets str, a later one the name computed before.
newZellijSession ==
  /\ Len(nm.results) < MaxApplications
  /\ LET name == IF nm.results = <<>> THEN nm.str ELSE nm.results[Len(nm.results)]
     IN  nm' = [nm EXCEPT !.results = Append(@, toClaudeSquadZellijName(name))]
  /\ UNCHANGED nmRest

----
(***************************************************************************)
(* PART V - the summary tick: Summarizer.UpdateNextSummary                 *)
(* Times are seconds; the zero time.Time is ZeroTime.                      *)
(***************************************************************************)
\* Most instances handed to the summarizer, last second of its clock.
MaxSummaryInstances == 3
MaxSummaryNow == 20

SummaryRefreshInterval == 5
SummaryPerInstanceCooldown == 10

\* An instance as the summarizer sees it: not started, running or paused,
\* and SummaryUpdatedAt.
SummaryInstance(st) == [st |-> st, SummaryUpdatedAt |-> ZeroTime]

NoTick == [ran |-> FALSE, before |-> <<>>, startIdx |-> 0, now |-> 0]

NoSummary == [instances |-> <<>>, lastUpdateIndex |-> 0, now |-> SummaryRefreshInterval,
              last |-> NoTick]

\* The loop of UpdateNextSummary: the 0-based index of the first instance,
\* from startIdx on and wrapping, that is started, not paused and outside its
\* cooldown; the length of the list when there is none.
RECURSIVE NextToSummarizeNoCooldown(_, _, _, _)
NextToSummarizeNoCooldown(insts, now, startIdx, i) ==
  IF i >= Len(insts) THEN Len(insts)
  ELSE LET idx == (startIdx + i) % Len(insts)
           instance == insts[idx + 1]
       IN  IF instance.st # "running"
             THEN NextToSummarizeNoCooldown(insts, now, startIdx, i + 1)
             ELSE idx

RECURSIVE NextToSummarize(_, _, _, _)
NextToSummarize(insts, now, startIdx, i) ==
  IF i >= Len(insts) THEN Len(insts)
  ELSE LET idx == (startIdx + i) % Len(insts)
           instance == insts[idx + 1]
       IN  IF instance.st # "running"
             THEN NextToSummarize(insts, now, startIdx, i + 1)
           ELSE IF /\ instance.SummaryUpdatedAt # ZeroTime
                   /\ Sub(now, instance.SummaryUpdatedAt) < SummaryPerInstanceCooldown
             THEN NextToSummarize(insts, now, startIdx, i + 1)
             ELSE idx

\* UpdateNextSummary; previewFails: Instance.Preview fails in generateSummary.
UpdateNextSummary(s, previewFails) ==
  LET n == Len(s.instances)
      idx == NextToSummarize(s.instances, s.now, s.lastUpdateIndex, 0)
      ran == [ran |-> TRUE, before |-> s.instances, startIdx |-> s.lastUpdateIndex, now |-> s.now]
  IN  IF n = 0 \/ idx = n THEN [s EXCEPT !.last = ran]
      ELSE [s EXCEPT !.lastUpdateIndex = (idx + 1) % n,
                     !.instances[idx + 1].SummaryUpdatedAt =
                        IF previewFails THEN @ ELSE s.now,
                     !.last = ran]

tickUpdateSummary(previewFails) ==
  /\ summ' = UpdateNextSummary(summ, previewFails)
  /\ UNCHANGED summRest

SummaryClock ==
  /\ summ.now + SummaryRefreshInterval <= MaxSummaryNow
  /\ summ' = [summ EXCEPT !.now = @ + SummaryRefreshInterval, !.last = NoTick]
  /\ UNCHANGED summRest

\* The list grows (new instance, merge from disk), an instance is started,
\* paused or resumed, or leaves the list (kill, merge).
SummaryListAdd(st) ==
  /\ Len(summ.instances) < MaxSummaryInstances
  /\ summ' = [summ EXCEPT !.instances = Append(@, SummaryInstance(st)), !.last = NoTick]
  /\ UNCHANGED summRest

SummaryListSet(k, st) ==
  /\ k \in 1 .. Len(summ.instances)
  /\ summ.instances[k].st # st
  /\ st # "new"
  /\ summ' = [summ EXCEPT !.instances[k].st = st, !.last = NoTick]
  /\ UNCHANGED summRest

SummaryListRemove(k) ==
  /\ k \in 1 .. Len(summ.instances)
  /\ summ' = [summ EXCEPT
       !.instances = SubSeq(@, 1, k - 1) \o SubSeq(@, k + 1, Len(@)),
       !.last = NoTick]
  /\ UNCHANGED summRest

----
(***************************************************************************)
(* PART VII - the title of a new instance, typed in stateNew               *)
(* The title is modelled by len(instance.Title), its length in bytes.      *)
(***************************************************************************)
\* Bytes one tea.KeyRunes message carries (a paste, a multi-byte rune), and
\* the longest title the model lets the keys build.
MaxRunes == 2
MaxTitleBytes == 35

NoEnter == [pressed |-> FALSE, len |-> 0, accepted |-> FALSE]

\* state: stateDefault, stateNew or stateLoading; Title: len(instance.Title)
\* of the instance being named; key: the key handled last; err: the error
\* it showed; enter: history of the last KeyEnter.
NoTitle ==
  [state |-> "stateDefault", Title |-> 0, key |-> "none", err |-> "nil", enter |-> NoEnter]

\* Instance.startInternal, its test of the title
startInternalTitle(len) == IF len = 0 THEN "instance title cannot be empty" ELSE "nil"

\* keys.KeyNew: a new instance with an empty title, stateNew
TitleKeyNew ==
  /\ ttl.state \in {"stateDefault", "stateLoading"}
  /\ ttl' = [state |-> "stateNew", Title |-> 0, key |-> "n", err |-> "nil", enter |-> NoEnter]
  /\ UNCHANGED ttlRest

\* stateNew, tea.KeyRunes carrying n bytes
TitleKeyRunes(n) ==
  /\ ttl.state = "stateNew"
  /\ ttl' = IF ttl.Title >= 32
              THEN [ttl EXCEPT !.key = "runes", !.err = "title cannot be longer than 32 characters",
                               !.enter = NoEnter]
              ELSE [ttl EXCEPT !.key = "runes", !.Title = @ + n, !.err = "nil", !.enter = NoEnter]
  /\ UNCHANGED ttlRest

\* stateNew, tea.KeySpace
TitleKeySpace ==
  /\ ttl.state = "stateNew"
  /\ ttl.Title < MaxTitleBytes
  /\ ttl' = [ttl EXCEPT !.key = "space", !.Title = @ + 1, !.err = "nil", !.enter = NoEnter]
  /\ UNCHANGED ttlRest

\* stateNew, tea.KeyBackspace
TitleKeyBackspace ==
  /\ ttl.state = "stateNew"
  /\ ttl' = IF ttl.Title = 0
              THEN [ttl EXCEPT !.key = "backspace", !.err = "nil", !.enter = NoEnter]
              ELSE [ttl EXCEPT !.key = "backspace", !.Title = @ - 1, !.err = "nil", !.enter = NoEnter]
  /\ UNCHANGED ttlRest

\* stateNew, tea.KeyEnter: startInstanceAsync unless the title is empty; the
\* instance is created when startInternal lets the title pass.
TitleKeyEnter ==
  /\ ttl.state = "stateNew"
  /\ ttl' = IF ttl.Title = 0
              THEN [ttl EXCEPT !.key = "enter", !.err = "title cannot be empty",
                               !.enter = [pressed |-> TRUE, len |-> 0, accepted |-> FALSE]]
              ELSE [ttl EXCEPT !.key = "enter", !.state = "stateLoading",
                               !.err = startInternalTitle(ttl.Title),
                               !.enter = [pressed |-> TRUE, len |-> ttl.Title,
                                          accepted |-> startInternalTitle(ttl.Title) = "nil"]]
  /\ UNCHANGED ttlRest

----
(***************************************************************************)
(* PART VIII - the content cache of one backend session                    *)
(*   contentCache.Get / Set / Invalidate, CapturePaneContent, SendKeys     *)
(* One task captures (preview tick, metadata worker, trust-screen          *)
(* goroutine) while another sends keys.  Times are milliseconds; renders   *)
(* of the terminal buffer are numbered in the order they are made.         *)
(***************************************************************************)
\* Last millisecond of the clock, the time between two of its readings and
\* the number of renders one behaviour makes.
MaxCacheNow == 500
CacheClockStep == 100
MaxRenders == 3

\* newContentCache(200 * time.Millisecond)
ContentCacheTTL == 200

NoCapture == [done |-> FALSE, content |-> 0, inv |-> 0]

\* content, lastUpdate: the fields of the cache (content 0: ""); renders:
\* renders made so far; inv: history, the renders made before the last
\* Invalidate; pos, held, heldInv: the capture in progress, the render it
\* holds and inv when it was called; ret: the capture that returned last.
NoCache ==
  [content |-> 0, lastUpdate |-> ZeroTime, now |-> CacheClockStep,
   renders |-> 0, inv |-> 0, pos |-> "idle", held |-> 0, heldInv |-> 0,
   ret |-> NoCapture]

\* contentCache.Get: the content and whether it is valid
Get(c) ==
  IF c.lastUpdate = ZeroTime THEN [content |-> 0, valid |-> FALSE]
  ELSE IF c.now - c.lastUpdate > ContentCacheTTL THEN [content |-> 0, valid |-> FALSE]
  ELSE [content |-> c.content, valid |-> TRUE]

\* contentCache.Set
Set(c, content) == [c EXCEPT !.content = content, !.lastUpdate = c.now]

\* contentCache.Invalidate
Invalidate(c) == [c EXCEPT !.lastUpdate = ZeroTime]

\* CapturePaneContent up to the render: the cached content when it is
\* valid, termBuffer.Render() (zellij: or dump-screen) otherwise.
CapturePaneContent ==
  /\ cc.pos = "idle"
  /\ LET g == Get(cc)
     IN  IF g.valid
           THEN cc' = [cc EXCEPT !.ret = [done |-> TRUE, content |-> g.content, inv |-> cc.inv]]
           ELSE /\ cc.renders < MaxRenders
                /\ cc' = [cc EXCEPT !.renders = @ + 1, !.pos = "rendered",
                                    !.held = cc.renders + 1, !.heldInv = cc.inv,
                                    !.ret = NoCapture]
  /\ UNCHANGED ccRest

\* CapturePaneContent from contentCache.Set on.
CapturePaneContentSets ==
  /\ cc.pos = "rendered"
  /\ cc' = [Set(cc, cc.held) EXCEPT
              !.pos = "idle", !.held = 0, !.heldInv = 0,
              !.ret = [done |-> TRUE, content |-> cc.held, inv |-> cc.heldInv]]
  /\ UNCHANGED ccRest

\* SendKeys / TapEnter / TapDAndEnter: the keys are sent and the cache is
\* invalidated.
SendKeysInvalidates ==
  /\ cc' = [Invalidate(cc) EXCEPT !.inv = cc.renders, !.ret = NoCapture]
  /\ UNCHANGED ccRest

CacheClock ==
  /\ cc.now + CacheClockStep <= MaxCacheNow
  /\ cc' = [cc EXCEPT !.now = @ + CacheClockStep, !.ret = NoCapture]
  /\ UNCHANGED ccRest

----
(***************************************************************************)
(* PART IX - one container-backed instance                                 *)
(*   docker.toDockerContainerName / NewDockerSession / Start / Restore,    *)
(*   Instance.Start, ToInstanceData, FromInstanceData, Pause, Resume,      *)
(*   UpdateDiffStats and the kill action, for the session types            *)
(*   docker-bind (with a worktree) and docker-clone (without).             *)
(* A container name is a sequence of symbols as in Part II; the number at  *)
(* its end stands for the hexadecimal rendering of that number.            *)
(***************************************************************************)
\* Clock readings of one behaviour, and the last second of the clock.
MaxClockSteps == 3
MaxUnix == 65540

SessionTypeDockerClone == "docker-clone"

\* DockerPrefix, "claudesquad_"
DockerPrefix == <<"claudesquad", "_">>

\* time.Now().Unix() & 0xFFFF
SuffixMask == 65536
ClockSuffix(now) == now % SuffixMask

\* toDockerContainerName: white space removed, "." replaced, prefix in
\* front, "_" and the low 16 bits of the clock behind.
toDockerContainerName(str, now) ==
  LET kept == SelectSeq(str, LAMBDA c : c \notin whiteSpace)
      under == [k \in 1 .. Len(kept) |-> IF kept[k] = "." THEN "_" ELSE kept[k]]
  IN  DockerPrefix \o under \o <<"_", ClockSuffix(now)>>

\* NewDockerSession: a name that has the prefix is the container name,
\* any other name is made into one at the time of the call.
NewDockerSession(name, now) ==
  IF HasPrefix(name, DockerPrefix) THEN name ELSE toDockerContainerName(name, now)

NoHandle == <<>>
NoRecord == [Title |-> <<>>]
NoReload == [done |-> FALSE, ok |-> FALSE, handle |-> NoHandle, gitWorktree |-> FALSE]

NoContainer ==
  [Title |-> <<>>, SessionType |-> SessionTypeDockerBind, started |-> FALSE,
   Status |-> Ready, gitWorktree |-> FALSE, handle |-> NoHandle,
   containers |-> {}, created |-> NoHandle, rec |-> NoRecord, loaded |-> NoReload,
   now |-> 0, steps |-> 0, op |-> "none", ret |-> "none"]

\* The process is gone after a nil pointer dereference.
DockerAlive == dkr.ret # "panic"

\* Instance.Start(true): the worktree descriptor except in clone mode, the
\* session handle named after the worktree's session name or the title
\* (both are the title), DockerSession.Start, SetStatus(Running).
DockerInstanceStart ==
  /\ DockerAlive
  /\ ~dkr.started /\ dkr.created = NoHandle
  /\ LET h == NewDockerSession(dkr.Title, dkr.now)
     IN  dkr' = [dkr EXCEPT !.started = TRUE, !.Status = Running,
                            !.gitWorktree = (dkr.SessionType # SessionTypeDockerClone),
                            !.handle = h, !.created = h,
                            !.containers = @ \cup {h},
                            !.op = "Start", !.ret = "nil"]
  /\ UNCHANGED dkrRest

\* Instance.ToInstanceData, Storage.SaveInstances: the worktree data is
\* written only when there is a descriptor; the container name is not
\* written (DockerContainerID is never set).
DockerSave ==
  /\ DockerAlive
  /\ dkr.started
  /\ dkr' = [dkr EXCEPT !.rec = [Title |-> dkr.Title, Status |-> dkr.Status,
                                 SessionType |-> dkr.SessionType,
                                 WorktreePath |-> dkr.gitWorktree,
                                 SessionName |-> IF dkr.gitWorktree THEN dkr.Title ELSE <<>>],
                        !.op = "Save", !.ret = "nil"]
  /\ UNCHANGED dkrRest

DockerClock(step) ==
  /\ dkr.steps < MaxClockSteps
  /\ dkr.now + step <= MaxUnix
  /\ dkr' = [dkr EXCEPT !.now = @ + step, !.steps = @ + 1]
  /\ UNCHANGED dkrRest

\* FromInstanceData of the record (LoadInstances of this or of a later
\* process): the descriptor from the record unless the record is a clone
\* without worktree path; the handle from NewMultiplexer; for a record that
\* is not paused Start(false), whose Restore needs the container of the
\* handle's name ("docker start" fails without it).
DockerFromInstanceData ==
  /\ DockerAlive
  /\ dkr.rec # NoRecord
  /\ LET r  == dkr.rec
         wt == r.WorktreePath \/ r.SessionType # SessionTypeDockerClone
         h  == NewDockerSession(IF wt THEN r.SessionName ELSE r.Title, dkr.now)
     IN  dkr' = [dkr EXCEPT !.loaded = [done |-> TRUE,
                                        ok |-> r.Status = Paused \/ h \in dkr.containers,
                                        handle |-> h, gitWorktree |-> wt],
                            !.op = "Load", !.ret = "nil"]
  /\ UNCHANGED dkrRest

\* What a method of GitWorktree does when it is called on a nil descriptor
\* and its body is not at hand (IsDirty, IsBranchCheckedOut): it
\* dereferences the descriptor or returns an error.
NilWorktreeCalls == {"panic", "error"}

\* Instance.Pause: IsDirty, DetachSafely, os.Stat(GetWorktreePath()), Remove,
\* Prune, SetStatus(Paused).  GetWorktreePath reads a field of the
\* descriptor, so that without one Pause ends there if not in IsDirty.
DockerPause(fails) ==
  /\ DockerAlive
  /\ dkr.started
  /\ dkr' = IF dkr.Status = Paused THEN [dkr EXCEPT !.op = "Pause", !.ret = "error"]
            ELSE IF ~dkr.gitWorktree THEN [dkr EXCEPT !.op = "Pause", !.ret = "panic"]
            ELSE IF fails THEN [dkr EXCEPT !.op = "Pause", !.ret = "error"]
            ELSE [dkr EXCEPT !.Status = Paused, !.op = "Pause", !.ret = "nil"]
  /\ UNCHANGED dkrRest

\* Instance.Resume: refused unless paused; IsBranchCheckedOut, Setup,
\* Restore or Start, SetStatus(Running).
DockerResume(o) ==
  /\ DockerAlive
  /\ dkr.started
  /\ dkr' = IF dkr.Status # Paused THEN [dkr EXCEPT !.op = "Resume", !.ret = "error"]
            ELSE IF ~dkr.gitWorktree THEN [dkr EXCEPT !.op = "Resume", !.ret = o]
            ELSE [dkr EXCEPT !.Status = Running, !.containers = @ \cup {dkr.handle},
                             !.op = "Resume", !.ret = "nil"]
  /\ UNCHANGED dkrRest

\* The diff part of the metadata tick, ParallelUpdateDiffStats:
\* Instance.UpdateDiffStats calls gitWorktree.Diff(), which reads a field of
\* the descriptor first.
DockerUpdateDiffStats(fails) ==
  /\ DockerAlive
  /\ dkr.started /\ dkr.Status # Paused
  /\ dkr' = IF ~dkr.gitWorktree THEN [dkr EXCEPT !.op = "Diff", !.ret = "panic"]
            ELSE [dkr EXCEPT !.op = "Diff", !.ret = IF fails THEN "error" ELSE "nil"]
  /\ UNCHANGED dkrRest

\* killAction: GetGitWorktree, IsBranchCheckedOut, DeleteInstance, List.Kill
\* (Instance.Kill: Close removes the container).
DockerKill(o) ==
  /\ DockerAlive
  /\ dkr.started
  /\ dkr' = IF ~dkr.gitWorktree THEN [dkr EXCEPT !.op = "Kill", !.ret = o]
            ELSE [dkr EXCEPT !.started = FALSE, !.containers = @ \ {dkr.handle},
                             !.rec = NoRecord, !.op = "Kill", !.ret = "nil"]
  /\ UNCHANGED dkrRest

----
(***************************************************************************)
(* PART X - the worker tasks of the metadata tick                          *)
(*   session.ParallelUpdate, session.ParallelUpdateDiffStats               *)
(* The tick calls ParallelUpdate, waits for it, and then calls             *)
(* ParallelUpdateDiffStats with the same list.                             *)
(***************************************************************************)
\* runtime.NumCPU() of the machine, and the longest list of instances.
NumCPU == 2
MaxWorkInstances == 4

NoWorkers ==
  [phase |-> "idle", insts |-> <<>>, next |-> 1, pos |-> <<>>, sem |-> 0]

\* A channel without capacity limit.
SemAlwaysHasRoom(p) == TRUE
\* sem <- struct{}{} goes through while the channel has room.
SemHasRoom(p) == p.sem < NumCPU

\* The worker tasks that hold a slot: started by the loop and not yet at
\* the deferred release.
AtWork(p) == {k \in 1 .. Len(p.pos) : p.pos[k] \in {"spawned", "working"}}

\* tickUpdateMetadataMessage reaches session.ParallelUpdate(instances); an
\* entry of insts tells whether the instance is started and not paused.
TickCallsParallelUpdate(insts) ==
  /\ par.phase = "idle"
  /\ par' = [phase |-> "activity", insts |-> insts, next |-> 1,
             pos |-> [k \in 1 .. Len(insts) |-> "none"], sem |-> 0]
  /\ UNCHANGED parRest

\* The loop passes an instance that is nil, not started or paused.
WorkerLoopSkips ==
  /\ par.phase # "idle"
  /\ par.next <= Len(par.insts)
  /\ ~par.insts[par.next]
  /\ par' = [par EXCEPT !.next = @ + 1]
  /\ UNCHANGED parRest

\* wg.Add(1), sem <- struct{}{}, go func(...)
WorkerLoopSpawns ==
  /\ par.phase # "idle"
  /\ par.next <= Len(par.insts)
  /\ par.insts[par.next]
  /\ SemHasRoom(par)
  /\ par' = [par EXCEPT !.sem = @ + 1, !.pos[par.next] = "spawned", !.next = @ + 1]
  /\ UNCHANGED parRest

\* The task is scheduled: HasUpdated, or UpdateDiffStats, of its instance.
WorkerRuns(k) ==
  /\ k \in 1 .. Len(par.pos)
  /\ par.pos[k] = "spawned"
  /\ par' = [par EXCEPT !.pos[k] = "working"]
  /\ UNCHANGED parRest

\* The result is stored; the deferred <-sem runs.
WorkerReleases(k) ==
  /\ k \in 1 .. Len(par.pos)
  /\ par.pos[k] = "working"
  /\ par' = [par EXCEPT !.pos[k] = "released", !.sem = @ - 1]
  /\ UNCHANGED parRest

\* The deferred wg.Done runs and the task ends.
WorkerDone(k) ==
  /\ k \in 1 .. Len(par.pos)
  /\ par.pos[k] = "released"
  /\ par' = [par EXCEPT !.pos[k] = "done"]
  /\ UNCHANGED parRest

\* wg.Wait returns; after ParallelUpdate the tick sets the statuses and
\* calls ParallelUpdateDiffStats, after that it returns.
WorkerWaitReturns ==
  /\ par.phase # "idle"
  /\ par.next = Len(par.insts) + 1
  /\ \A k \in 1 .. Len(par.pos) : par.pos[k] \in {"none", "done"}
  /\ par' = IF par.phase = "activity"
              THEN [par EXCEPT !.phase = "diff", !.next = 1,
                               !.pos = [k \in 1 .. Len(par.insts) |-> "none"]]
              ELSE NoWorkers
  /\ UNCHANGED parRest

----
(***************************************************************************)
(* PART XI - reading the capture file of "zellij action dump-screen"       *)
(*   readCaptureFileWithRetry                                              *)
(* The file has a name of its own for every capture; zellij creates it     *)
(* and writes it, nothing else touches it before the reader has returned.  *)
(* Durations are microseconds.                                             *)
(***************************************************************************)
captureFileMaxRetries == 3
captureFileInitialDelay == 5000
captureFileMaxDelay == 100000

\* What the file holds: nothing, the first part of the screen, all of it.
NonEmpty == {"partial", "content"}

NoCaptureRead ==
  [file |-> "absent", pc |-> "idle", attempt |-> 0, delay |-> captureFileInitialDelay,
   slept |-> 0, obs |-> <<>>, ret |-> "none", content |-> "none"]

\* A loop that would go round once more.
LoopContinuesOnceMore(attempt) == attempt <= captureFileMaxRetries + 1
\* The condition of the loop, attempt <= captureFileMaxRetries.
LoopContinues(attempt) == attempt <= captureFileMaxRetries

\* continue: attempt++, then the loop condition; a further attempt starts
\* with time.Sleep(delay).
NextAttempt(c) ==
  IF LoopContinues(c.attempt + 1)
    THEN [c EXCEPT !.attempt = @ + 1, !.pc = "sleep"]
    ELSE [c EXCEPT !.attempt = @ + 1, !.pc = "done", !.ret = "error"]

\* CapturePaneContent has run dump-screen and calls the reader.
ReadCaptureFileWithRetry ==
  /\ cap.pc = "idle"
  /\ cap' = [cap EXCEPT !.pc = "stat"]
  /\ UNCHANGED capRest

\* zellij creates the file, or writes the screen into it.
CaptureFileWritten(s) ==
  /\ cap.pc # "done"
  /\ \/ cap.file = "absent" /\ s \in {"empty", "partial", "content"}
     \/ cap.file = "empty" /\ s \in NonEmpty
     \/ cap.file = "partial" /\ s = "content"
  /\ cap' = [cap EXCEPT !.file = s]
  /\ UNCHANGED capRest

\* time.Sleep(delay) is over; delay = time.Duration(float64(delay) * 1.5),
\* at most captureFileMaxDelay.
NextDelay(delay) ==
  IF (delay * 3) \div 2 > captureFileMaxDelay THEN captureFileMaxDelay ELSE (delay * 3) \div 2

CaptureSleepEnds ==
  /\ cap.pc = "sleep"
  /\ cap' = [cap EXCEPT !.pc = "stat", !.slept = cap.delay, !.delay = NextDelay(@)]
  /\ UNCHANGED capRest

\* os.Stat: a file that does not exist or has size 0 ends the attempt.
CaptureStat ==
  /\ cap.pc = "stat"
  /\ LET seen == [cap EXCEPT !.obs = Append(@, cap.file)]
     IN  cap' = IF cap.file \in NonEmpty THEN [seen EXCEPT !.pc = "read"]
                                       ELSE NextAttempt(seen)
  /\ UNCHANGED capRest

\* os.ReadFile: content of length 0 ends the attempt, any other is returned.
CaptureReadFile ==
  /\ cap.pc = "read"
  /\ cap' = IF cap.file \in NonEmpty
              THEN [cap EXCEPT !.pc = "done", !.ret = "ok", !.content = cap.file]
              ELSE NextAttempt(cap)
  /\ UNCHANGED capRest

\* Parts III to VIII at rest.
EarlierIdle ==
  /\ att = NoAttach /\ dif = NoDiff /\ summ = NoSummary
  /\ nm = NoName /\ ttl = NoTitle /\ cc = NoCache

\* Parts IX to XI at rest.
LaterIdle == dkr = NoContainer /\ par = NoWorkers /\ cap = NoCaptureRead

\* Parts III to XI at rest (specifications of Parts I and II).
AuxIdle == EarlierIdle /\ LaterIdle
----
\* tickUpdateMetadataMessage

\* What HasUpdated reports for the instance at each position of a list of
\* n instances: the pane changed, it is unchanged and shows a prompt, it is
\* unchanged without a prompt (also the answer when the capture fails).
Updates(n) == [1 .. n -> {"updated", "prompt", "idle"}]

\* ParallelUpdate skips the instances that are not started or are Paused.
Polled(i) == i.started /\ i.Status # Paused

\* Instance.TapEnter reaches the backend only for a started instance with
\* AutoYes.
TapEnterIssued(i) == i.started /\ i.AutoYes

\* The loop over the results of ParallelUpdate: Running when the pane
\* changed, TapEnter (no status change) on a prompt, Ready otherwise.
UpdateStatuses(its, upd) ==
  [k \in 1 .. Len(its) |->
     IF ~Polled(its[k]) THEN its[k]
     ELSE IF upd[k] = "updated" THEN [its[k] EXCEPT !.Status = Running]
     ELSE IF upd[k] = "prompt" THEN its[k]
     ELSE [its[k] EXCEPT !.Status = Ready]]

\* What the tick did: the positions whose status was set to Running, to
\* Ready, and those whose backend got the enter key.
TickMsg(op, had, titles, its, upd) ==
  [Msg(op, "nil", {}, had, titles) EXCEPT
     !.setRunning = {k \in 1 .. Len(its) : Polled(its[k]) /\ upd[k] = "updated"},
     !.setReady = {k \in 1 .. Len(its) : Polled(its[k]) /\ upd[k] = "idle"},
     !.tapped = {k \in 1 .. Len(its) :
                   Polled(its[k]) /\ upd[k] = "prompt" /\ TapEnterIssued(its[k])}]

\* A rare event: the tick finds a polled pane idle, or waiting at a prompt
\* that is not answered.
Unchanged(its, upd) ==
  IF \E k \in 1 .. Len(its) :
       /\ Polled(its[k])
       /\ upd[k] = "idle" \/ (upd[k] = "prompt" /\ ~TapEnterIssued(its[k]))
    THEN {"unchanged"} ELSE {}

\* tickUpdateMetadataMessage: Storage.SyncFromDisk (RefreshFromDisk,
\* LoadInstances with its cleaning save), List.MergeInstances, then the
\* status update of the merged list.
TickUpdateMetadata ==
  /\ IF diskNewer
       THEN \E lf \in LoadFails :
              LET loaded  == LoadedFrom(world, disk, lf)
                  cleaned == Len(loaded) < Len(disk)
                  recs    == IF cleaned THEN SaveInstancesData(loaded) ELSE disk
              IN  \E order \in Orders(TitlesOf(loaded) \ TitlesOf(items)) :
                    LET m == MergeInstances(items, selectedIdx, loaded, order, world)
                    IN  \E upd \in Updates(Len(m.items)) :
                          /\ \A k \in 1 .. Len(m.items) : ~Polled(m.items[k]) => upd[k] = "idle"
                          /\ Allowed(lf \cup Unchanged(m.items, upd))
                          /\ Charge(lf \cup Unchanged(m.items, upd))
                          /\ items' = UpdateStatuses(m.items, upd)
                          /\ selectedIdx' = m.sel
                          /\ stateData' = recs
                          /\ disk' = recs
                          /\ diskNewer' = FALSE
                          /\ lastMsg' = TickMsg("tick", TitlesOf(items), TitlesOf(loaded),
                                                m.items, upd)
       ELSE \E upd \in Updates(Len(items)) :
              /\ \A k \in 1 .. Len(items) : ~Polled(items[k]) => upd[k] = "idle"
              /\ Allowed(Unchanged(items, upd))
              /\ Charge(Unchanged(items, upd))
              /\ items' = UpdateStatuses(items, upd)
              /\ lastMsg' = IF \A k \in 1 .. Len(items) : upd[k] = "updated" \/ ~Polled(items[k])
                              THEN Quiet
                              ELSE TickMsg("tickNoSync", {}, {}, items, upd)
              /\ UNCHANGED <<selectedIdx, stateData, disk, diskNewer>>
  /\ UNCHANGED <<storeVars, auxVars, autoYes, filterMode, homeState, world, nextId, inflight>>

----
\* The environment of the TUI process

\* A backend session ends (its program exits, the user kills it).
SessionExits(s) ==
  /\ s \in world.sessions
  /\ events < MaxEvents
  /\ events' = events + 1
  /\ world' = [world EXCEPT !.sessions = @ \ {s}]
  /\ lastMsg' = Quiet
  /\ UNCHANGED <<storeVars, auxVars, autoYes, items, selectedIdx, filterMode, homeState, stateData, disk,
                 diskNewer, nextId, inflight>>

\* The user checks a branch out in the main repository; git allows it only
\* for a branch that no worktree has checked out.
CheckoutBranch(b) ==
  /\ b \in world.branches \ world.checkedOut
  /\ \A t \in world.worktrees : t.branch # b
  /\ events < MaxEvents
  /\ events' = events + 1
  /\ world' = [world EXCEPT !.checkedOut = @ \cup {b}]
  /\ lastMsg' = Quiet
  /\ UNCHANGED <<storeVars, auxVars, autoYes, items, selectedIdx, filterMode, homeState, stateData, disk,
                 diskNewer, nextId, inflight>>

\* Another process saves the state file without the records at the
\* positions of S: it killed the instances at the positions of K (their
\* resources go too) and its list never had the others.
OtherProcessSaves(S, K) ==
  /\ S # {}
  /\ K \subseteq S
  /\ \A k \in K : disk[k].name \notin world.checkedOut
  /\ events < MaxEvents
  /\ events' = events + 1
  /\ disk' = LET keep == SelectSeq(Positions(disk), LAMBDA k : k \notin S)
             IN  [j \in 1 .. Len(keep) |-> disk[keep[j]]]
  /\ diskNewer' = TRUE
  /\ world' = [world EXCEPT
       !.sessions = {s \in @ : \A k \in K : s.name # toClaudeSquadZellijName(disk[k].name)},
       !.worktrees = {t \in @ : \A k \in K : t.id # disk[k].id},
       !.branches = @ \ {disk[k].name : k \in K}]
  /\ lastMsg' = Quiet
  /\ UNCHANGED <<storeVars, auxVars, autoYes, items, selectedIdx, filterMode, homeState, stateData,
                 nextId, inflight>>

\* Another process creates an instance of title t and saves it.
OtherProcessCreates(t) ==
  /\ nextId <= MaxIds
  /\ t # <<>>
  /\ \A k \in 1 .. Len(disk) : disk[k].Title # t
  /\ events < MaxEvents
  /\ events' = events + 1
  /\ LET i == [NewInstance(nextId, SessionTypeZellij) EXCEPT !.Title = t]
         r == StartFirstTime(world, i, {})
     IN  /\ r.ok
         /\ world' = r.w
         /\ disk' = Append(disk, ToInstanceData(r.i))
  /\ diskNewer' = TRUE
  /\ nextId' = nextId + 1
  /\ lastMsg' = Quiet
  /\ UNCHANGED <<storeVars, auxVars, autoYes, items, selectedIdx, filterMode, homeState, stateData, inflight>>

\* newHome: every loaded instance gets AutoYes under --autoyes
SetAutoYes(its) == [k \in 1 .. Len(its) |-> [its[k] EXCEPT !.AutoYes = TRUE]]

\* The TUI process ends, by the quit key (handleQuit saves the list) or by a
\* crash, and a new one starts: newHome loads the state and the instances.
Restart(graceful) ==
  /\ graceful => homeState = stateDefault
  /\ \E lf \in LoadFails :
       LET saved   == IF graceful THEN SaveInstancesData(items) ELSE disk
           loaded  == LoadedFrom(world, saved, lf)
           cleaned == Len(loaded) < Len(saved)
           recs    == IF cleaned THEN SaveInstancesData(loaded) ELSE saved
           rare    == lf \cup (IF graceful THEN {} ELSE {"crash"})
       IN  /\ Allowed(rare)
           /\ Charge(rare)
           /\ items' = IF autoYes THEN SetAutoYes(loaded) ELSE loaded
           /\ stateData' = recs
           /\ disk' = recs
           /\ lastMsg' = Msg("Load", "nil", lf, {}, TitlesOf(saved))
  /\ diskNewer' = FALSE
  /\ selectedIdx' = 0
  /\ filterMode' = FilterAll
  /\ homeState' = stateDefault
  /\ inflight' = "none"
  /\ UNCHANGED <<storeVars, auxVars, autoYes, world, nextId>>

----
\* The TUI process with its environment; the state store of Part I is idle.

InitLife ==
  /\ items = <<>>
  /\ selectedIdx = 0
  /\ filterMode = FilterAll
  /\ homeState = stateDefault
  /\ stateData = <<>>
  /\ disk = <<>>
  /\ diskNewer = FALSE
  /\ world = NoWorld
  /\ nextId = 1
  /\ lastMsg = Quiet
  /\ inflight = "none"
  /\ autoYes \in BOOLEAN
  /\ events = IF autoYes THEN 1 ELSE 0

StoreIdle ==
  /\ stateFile = [exists |-> FALSE, content |-> 0, mtime |-> 0]
  /\ stateLock = [shared |-> [p \in Procs |-> 0], excl |-> NoProc]
  /\ clock = 0
  /\ appState = [p \in Procs |-> DefaultState]
  /\ pc = [p \in Procs |-> "boot"]
  /\ local = [p \in Procs |-> NoLocal]
  /\ lastComplete = 0
  /\ readView = [p \in Procs |-> NoView]

Init == StoreIdle /\ InitLife /\ AuxIdle

Next ==
  \/ KeyNew
  \/ \E r \in Runes : StateNewKeyRunes(r)
  \/ StateNewKeyBackspace
  \/ StateNewKeyEnter
  \/ StateNewKeyEsc
  \/ LoadingComplete
  \/ SaveDebounce
  \/ KeyDown
  \/ KeyToggleArchive
  \/ KeyCheckout
  \/ KeyResume
  \/ KeyKill
  \/ KeyArchive
  \/ KeyUnarchive
  \/ \E t \in Titles : KeyRename(t)
  \/ KeyImport
  \/ TickUpdateMetadata
  \/ \E s \in world.sessions : SessionExits(s)
  \/ \E b \in Titles : CheckoutBranch(b)
  \/ \E S \in SUBSET (1 .. Len(disk)), K \in SUBSET (1 .. Len(disk)) : OtherProcessSaves(S, K)
  \/ \E t \in Titles : OtherProcessCreates(t)
  \/ \E graceful \in BOOLEAN : Restart(graceful)

Spec == Init /\ [][Next]_vars

----
(***************************************************************************)
(* Specification of Part III: one session handle, attached and detached.   *)
(***************************************************************************)
InitAttach ==
  /\ StoreIdle
  /\ LaterIdle
  /\ InitLife /\ ~autoYes
  /\ \E kind \in {BackendZellij, BackendDocker} : att = Handle(kind)
  /\ dif = NoDiff /\ summ = NoSummary /\ nm = NoName /\ ttl = NoTitle /\ cc = NoCache

NextAttach ==
  \/ ZellijAttach
  \/ DockerAttach
  \/ StdoutCopyStarts
  \/ StdoutCopyEnds
  \/ Elapse50ms
  \/ \E c \in Chunks : ZellijStdinRead(c)
  \/ \E c \in Chunks : DockerStdinRead(c)
  \/ DockerStdinStops
  \/ ZellijDetach
  \/ ZellijDetachReturns
  \/ ZellijDetachSafely
  \/ ZellijDetachSafelyReturns
  \/ DockerDetachSafely
  \/ BackendSessionEnds
  \/ ZellijDetachSafelyNotAttached
  \/ RestoreDetached
  \/ Close
  \/ \E t \in att.tasks : PTYReaderLoops(t)
  \/ \E t \in att.tasks : PTYReaderReadReturns(t)

SpecAttach == InitAttach /\ [][NextAttach]_vars

\* C19: the channel returned by Attach is closed at most once, and when it is
\* closed the detach has completed: the PTY that Attach fanned is closed, the
\* stdin and the stdout goroutine have stopped, and, the session still
\* living, the background reader reads an open PTY of it.
C19_ChannelClosedAfterDetach ==
  /\ att.closes <= 1
  /\ att.ch = "closed" =>
       /\ att.attachPty \notin att.open
       /\ att.out = "done"
       /\ att.inp = "done"
       /\ att.alive => att.reader # 0 /\ att.reader \in att.open

\* C19, reached: docker has closed the channel on Ctrl-Q while the PTY is
\* open and the stdout goroutine still copies from it.
C19_DockerClosedWhileCopying ==
  /\ att.kind = BackendDocker
  /\ att.ch = "closed"
  /\ att.attachPty \in att.open
  /\ att.out = "copying"

\* C20: on both backends a read of stdin holding a Ctrl-Q byte is discarded
\* without detaching when it comes within 50 ms of Attach, and triggers
\* detach when it comes later.
C20_CtrlQWindow ==
  HasCtrlQ(att.lastRead.chunk) =>
    IF att.lastRead.early
      THEN att.lastRead.did = "discarded" /\ att.ch = "open"
      ELSE att.lastRead.did = "detach"

\* C20, reached: zellij has written a late read holding Ctrl-Q to the PTY
\* and is still attached.
C20_ZellijForwardsCtrlQ ==
  /\ att.kind = BackendZellij
  /\ HasCtrlQ(att.lastRead.chunk)
  /\ ~att.lastRead.early
  /\ att.lastRead.did = "forwarded"
  /\ att.inp = "reading"

\* C28: no two reader goroutines are inside Read of the same PTY, and once
\* Detach, DetachSafely, Close or Restore has returned no reader goroutine
\* started before that call is left.
C28_OneReaderPerSession ==
  /\ \A t, u \in att.tasks : (t.pos = "read" /\ u.pos = "read" /\ t.pty = u.pty) => t = u
  /\ \A t \in att.tasks : t.id \notin att.old

\* C28, reached: DetachSafely has returned on a zellij handle that was not
\* attached, and the reader started before it is inside Read of the open
\* PTY, its context not cancelled.
C28_ReaderSurvivesDetachSafely ==
  /\ att.kind = BackendZellij
  /\ att.lastRet = "DetachSafely"
  /\ \E t \in att.tasks :
       /\ t.id \in att.old /\ t.id \notin att.done
       /\ t.pos = "read" /\ t.pty \in att.open
  /\ att.alive

----
(***************************************************************************)
(* Specification of Part VIII: captures, key sends and the clock.          *)
(***************************************************************************)
InitCache ==
  /\ StoreIdle
  /\ LaterIdle
  /\ InitLife /\ ~autoYes
  /\ att = NoAttach /\ dif = NoDiff /\ summ = NoSummary /\ nm = NoName /\ ttl = NoTitle
  /\ cc = NoCache

NextCache ==
  \/ CapturePaneContent
  \/ CapturePaneContentSets
  \/ SendKeysInvalidates
  \/ CacheClock

SpecCache == InitCache /\ [][NextCache]_vars

\* C29: a CapturePaneContent called after an invalidation returns content
\* rendered after that invalidation, also when another capture was between
\* its render and its Set while the cache was invalidated.
C29_NoContentFromBeforeInvalidate ==
  cc.ret.done => cc.ret.content > cc.ret.inv

\* C29, reached: a capture called after the invalidation has returned, from
\* the cache, the content a concurrent capture rendered before it.
C29_StaleAfterInvalidate ==
  /\ cc.ret.done
  /\ cc.ret.inv >= 1
  /\ cc.ret.content = cc.ret.inv
  /\ cc.ret.content = cc.content /\ cc.lastUpdate # ZeroTime
  /\ cc.pos = "idle"

----
(***************************************************************************)
(* Specification of Part IV: one instance, its diff statistics, the clock. *)
(***************************************************************************)
InitDiff ==
  /\ StoreIdle
  /\ LaterIdle
  /\ InitLife /\ ~autoYes
  /\ att = NoAttach /\ summ = NoSummary /\ nm = NoName /\ ttl = NoTitle /\ cc = NoCache
  /\ dif \in {NoDiff, FromOrphan}

NextDiff ==
  \/ DiffInstanceStarts
  \/ DiffClock
  \/ \E s \in {Running, Ready, Paused} : SetStatus(s)
  \/ \E g \in GitRuns : ParallelUpdateDiffStats(g)
  \/ \E g \in GitRuns : BackgroundUpdateDiffStats(g)

SpecDiff == InitDiff /\ [][NextDiff]_vars

\* C21: when the worktree of a started, not paused instance has no base
\* commit SHA, UpdateDiffStats returns no error and leaves the diff stats
\* unset.
C21_NoBaseCommitDefersDiff ==
  (dif.started /\ dif.Status # Paused /\ ~dif.baseSet /\ dif.ret # "none") =>
    dif.ret = "nil" /\ dif.diffStats = "nil"

\* C21, reached: the tick's diff update of an instance recovered from an
\* orphaned session has returned an error.
C21_OrphanDiffUpdateFails ==
  /\ dif.started /\ dif.Status = Running
  /\ ~dif.baseSet
  /\ ~dif.should.asked
  /\ dif.ret = "error"

\* C27: for a started, not paused instance ShouldUpdateDiff is false when
\* less than 30 s have passed since the last diff update, false when less
\* than 10 s have passed since the last activity, and true otherwise.
C27_ShouldUpdateDiff ==
  (dif.should.asked /\ dif.started /\ dif.Status # Paused) =>
    (dif.should.result <=> (dif.should.sinceDiff >= 30 /\ dif.should.sinceActivity >= 10))

\* C27, reached: ShouldUpdateDiff has answered true exactly 30 s after a diff
\* update, the last activity lying at least 10 s back.
C27_DueAfterThirtySeconds ==
  /\ dif.should.asked /\ dif.should.result
  /\ dif.should.sinceDiff = 30
  /\ dif.should.sinceActivity < MaxNow

----
(***************************************************************************)
(* Specification of Part IV with the metadata tick: every step of the      *)
(* clock is a tick, and the ticks never stop.                              *)
(***************************************************************************)
NextDiffTick ==
  \/ DiffInstanceStarts
  \/ \E upd \in PaneUpdates, g \in GitRuns : MetadataTick(upd, g)
  \/ DiffPause
  \/ DiffResume

SpecDiffTick ==
  /\ InitDiff
  /\ [][NextDiffTick]_vars
  /\ WF_vars(\E upd \in PaneUpdates, g \in GitRuns : MetadataTick(upd, g))

\* C34: an instance that is started and not paused and whose pane the ticks
\* find unchanged from some tick on is, while the ticks go on, eventually
\* due for a diff update (ShouldUpdateDiff is true).
C34_IdleBecomesDiffEligible ==
  []<>(~(dif.started /\ dif.Status # Paused /\ dif.upd = "idle") \/ ShouldUpdateDiff(dif))

\* C34, reached: the ticks have found the pane unchanged for a full window
\* and more; the last one has set the last activity to its own time and
\* has updated the diff stats, and the instance is not due.
C34_IdleNeverDue ==
  /\ dif.started /\ dif.Status = Ready /\ dif.upd = "idle"
  /\ dif.now = MaxNow
  /\ dif.lastActivity = dif.now
  /\ dif.lastDiffUpdate = dif.now
  /\ ~ShouldUpdateDiff(dif)
----
(***************************************************************************)
(* Properties of the instance lifecycle, checked under Spec                *)
(***************************************************************************)

\* The started instances of the list
StartedItems == {k \in 1 .. Len(items) : items[k].started}

\* The position of the instance the selection points at, 0 for none
Selected == GetSelectedInstance(items, filterMode, selectedIdx)

\* C1: in every reachable state, a started instance has status Paused
\* exactly when its PTY is closed and its worktree directory is absent.
C1_PausedIffPtyClosedAndNoWorktree ==
  \A k \in StartedItems :
    items[k].Status = Paused <=> (~items[k].ptmx /\ ~WorktreeExists(world, items[k]))

\* A paused instance whose PTY is still open: Pause ran DetachSafely on a
\* session that was not attached.
C1_PausedWithOpenPty ==
  \E k \in StartedItems : items[k].Status = Paused /\ items[k].ptmx

\* C2: for every instance whose status is Paused the worktree directory
\* does not exist and the branch still exists.
C2_PausedHasBranchAndNoWorktree ==
  \A k \in StartedItems :
    items[k].Status = Paused =>
      ~WorktreeExists(world, items[k]) /\ items[k].name \in world.branches

\* A Resume that failed and left the instance Paused without its branch.
C2_FailedResumeLostBranch ==
  /\ lastMsg.op = "Resume"
  /\ lastMsg.err = "error"
  /\ \E k \in StartedItems :
       items[k].Status = Paused /\ items[k].name \notin world.branches

\* C5: at all times no two started, non-archived instances of the list
\* have the same title.
C5_TitlesUniqueAmongNonArchived ==
  \A j, k \in StartedItems :
    (j # k /\ ~items[j].Archived /\ ~items[k].Archived) => items[j].Title # items[k].Title

\* A Rename that gave an instance the title of another one.
C5_RenamedToExistingTitle ==
  /\ lastMsg.op = "Rename"
  /\ lastMsg.err = "nil"
  /\ \E j, k \in StartedItems :
       j # k /\ ~items[j].Archived /\ ~items[k].Archived /\ items[j].Title = items[k].Title

\* C6: every instance whose archived flag is set has status Paused, in the
\* list and in every record of the state file.
C6_ArchivedImpliesPaused ==
  /\ \A k \in 1 .. Len(items) : items[k].Archived => items[k].Status = Paused
  /\ \A k \in 1 .. Len(disk) : disk[k].Archived => disk[k].Status = Paused

\* An archived record of the state file that does not say Paused.
C6_ArchivedRecordNotPaused ==
  \E k \in 1 .. Len(disk) : disk[k].Archived /\ disk[k].Status # Paused

\* C7: when Start fails (and no command of the clean-up itself fails), no
\* worktree directory, branch or backend session that was not there before
\* the Start is there after it.
C7_FailedStartLeavesNothing ==
  [][(/\ lastMsg'.op = "Start"
      /\ lastMsg'.err = "error"
      /\ lastMsg'.fails \cap {"remove", "kill", "open", "branch"} = {})
     => /\ world'.sessions \subseteq world.sessions
        /\ world'.worktrees \subseteq world.worktrees
        /\ world'.branches \subseteq world.branches]_vars

\* A Start that failed on the time-out and whose session is there.
C7_FailedStartLeftSession ==
  /\ lastMsg.op = "Start"
  /\ lastMsg.err = "error"
  /\ lastMsg.fails = {"timeout", "late"}
  /\ homeState = stateLoading
  /\ NewTarget >= 1
  /\ DoesSessionExist(world, items[NewTarget])

\* C8: Kill of a started instance attempts every step whatever failed
\* before it (a step whose command does not fail takes effect: the session
\* is closed, the worktree removed, the branch removed) and returns an
\* error exactly when a step failed: no error means that all three are gone.
C8_KillAttemptsEveryStep ==
  [][(lastMsg'.op = "KeyKill" /\ lastMsg'.err \in {"nil", "error"} /\ Selected # 0)
     => LET i == items[Selected]
            f == lastMsg'.fails
        IN  /\ "kill" \notin f => ~DoesSessionExist(world', i)
            /\ "remove" \notin f => ~WorktreeExists(world', i)
            /\ "branch" \notin f => i.name \notin world'.branches
            /\ lastMsg'.err = "nil" =>
                 /\ ~DoesSessionExist(world', i)
                 /\ ~WorktreeExists(world', i)
                 /\ i.name \notin world'.branches]_vars

\* A Kill in which opening the repository failed and the branch is left.
C8_KillLeftBranch ==
  /\ lastMsg.op = "KeyKill"
  /\ lastMsg.err = "error"
  /\ lastMsg.fails = {"open"}
  /\ world.branches # {}
  /\ items = <<>>

C10_MergeKeepsAliveDropsDead ==
  [][lastMsg'.op = "tick"
     => \A k \in 1 .. Len(items) :
          items[k].Title \notin lastMsg'.titles
            => (SessionAlive(world, items[k])
                  <=> \E j \in 1 .. Len(items') :
                        items'[j].id = items[k].id /\ items'[j].Title = items[k].Title)]_vars

\* A merge that dropped one instance without a disk record and kept another.
C10_MergeDroppedOneKeptOne ==
  /\ lastMsg.op = "tick"
  /\ \E t \in lastMsg.had \ lastMsg.titles : t \notin TitlesOf(items)
  /\ \E k \in 1 .. Len(items) :
       /\ items[k].Title \in lastMsg.had \ lastMsg.titles
       /\ SessionAlive(world, items[k])

\* The positions of the list the last tick reported an outcome for, by outcome
TickOutcomes(k) ==
  {o \in {"Running", "Ready", "TapEnter"} :
     \/ o = "Running" /\ k \in lastMsg.setRunning
     \/ o = "Ready" /\ k \in lastMsg.setReady
     \/ o = "TapEnter" /\ k \in lastMsg.tapped}

\* C11: in one activity tick, for every started, non-paused instance exactly
\* one of three outcomes occurs: its status is set to Running, its status is
\* set to Ready, or a TapEnter is issued to its backend.
C11_TickOutcomeIsPartition ==
  lastMsg.op \in {"tick", "tickNoSync"} =>
    \A k \in 1 .. Len(items) :
      Polled(items[k]) => Cardinality(TickOutcomes(k)) = 1

\* A tick that found a started, running instance at a prompt and did none of
\* the three: the instance has no AutoYes, so TapEnter returned at once.
C11_PromptLeftUnanswered ==
  /\ lastMsg.op = "tickNoSync"
  /\ \E k \in 1 .. Len(items) :
       /\ Polled(items[k])
       /\ ~items[k].AutoYes
       /\ TickOutcomes(k) = {}

\* Every live prefixed backend session belongs to an instance of the list.
EverySessionBelongs ==
  \A s \in world.sessions :
    s.kind = SessionTypeZellij =>
      \E k \in 1 .. Len(items) : items[k].session /\ SameSession(s, items[k])

\* C12: running orphan recovery when every live prefixed backend session
\* belongs to an instance already in the list produces zero new instances.
C12_NoOrphansNoNewInstances ==
  [][(lastMsg'.op = "Import" /\ EverySessionBelongs) => Len(items') = Len(items)]_vars

\* An import has added an instance for a session that an instance of the
\* list already owns: the two share the backend session and the worktree.
C12_ImportedOwnSession ==
  /\ lastMsg.op = "Import"
  /\ \E j, k \in 1 .. Len(items) :
       /\ j < k
       /\ Cardinality(lastMsg.had) = Len(items) - 1
       /\ items[j].session
       /\ SessionOf(items[j]) = SessionOf(items[k])
       /\ items[k].Title \in lastMsg.titles

\* C13: Rename changes only the display label: the backend session name, the
\* branch and the worktree path of the renamed instance are unchanged, and so
\* is the key under which it is identified in the store (a record of its old
\* title is still there), in merges (its old title is still a title of the
\* list) and in orphan detection (the same sessions count as orphans).
C13_RenameChangesOnlyLabel ==
  [][(lastMsg'.op = "Rename" /\ lastMsg'.err = "nil" /\ Selected # 0) =>
       LET old == items[Selected]
           new == items'[Selected]
       IN  /\ SessionOf(new) = SessionOf(old)
           /\ new.name = old.name
           /\ new.id = old.id
           /\ world' = world
           /\ HasTitle(disk, old.Title) => HasTitle(disk', old.Title)
           /\ old.Title \in TitlesOf(items')
           /\ ListOrphanedSessions(world', TitlesOf(items'))
                = ListOrphanedSessions(world, TitlesOf(items))]_vars

\* After a rename the live session of the renamed instance counts as an
\* orphan: orphan detection looks for the title, the session keeps its name.
C13_RenamedSessionIsOrphan ==
  /\ lastMsg.op = "Rename"
  /\ lastMsg.err = "nil"
  /\ \E k \in 1 .. Len(items) :
       /\ SessionAlive(world, items[k])
       /\ items[k].Title # items[k].name
       /\ \E s \in ListOrphanedSessions(world, TitlesOf(items)) : SameSession(s, items[k])

\* The record of an instance, restored and converted to a record again
RoundTrip(w, i) == ToInstanceData(FromInstanceData(w, ToInstanceData(i), {}).i)

\* C14: for every started instance, converting it to a persisted record and
\* restoring it (FromInstanceData, then ToInstanceData) yields a record
\* equal to the original on every persisted field.
C14_RecordRoundTrip ==
  \A k \in StartedItems :
    FromInstanceData(world, ToInstanceData(items[k]), {}).ok =>
      RoundTrip(world, items[k]) = ToInstanceData(items[k])

\* A started instance that the tick has set to Ready and whose session is
\* live: its record says Ready, the instance restored from it is Running.
C14_ReadyComesBackRunning ==
  \E k \in StartedItems :
    /\ items[k].Status = Ready
    /\ lastMsg.op = "tickNoSync"
    /\ k \in lastMsg.setReady
    /\ FromInstanceData(world, ToInstanceData(items[k]), {}).ok
    /\ RoundTrip(world, items[k]).Status = Running

\* C17: restoring from a persisted record performs no Start and no Restore
\* when the record is Paused or archived (the instance is only marked
\* started), and otherwise performs Start(false), which restores the existing
\* backend session without creating a worktree or a branch. Checked at the
\* step in which a starting process loads its instances: no session,
\* worktree or branch appears or goes (also not for a record that fails to
\* restore), every loaded instance is started, a paused or archived one has
\* no PTY, any other one is Running on a PTY of its existing session.
C17_RestoreFromRecord ==
  [][lastMsg'.op = "Load" =>
       /\ world' = world
       /\ LET recs == disk \o SaveInstancesData(items)
          IN  \A k \in 1 .. Len(recs) :
                FromInstanceData(world, recs[k], lastMsg'.fails).w = world
       /\ \A k \in 1 .. Len(items') :
            LET i == items'[k]
            IN  /\ i.started
                /\ i.session
                /\ IF i.Status = Paused \/ i.Archived
                     THEN ~i.ptmx
                     ELSE i.ptmx /\ i.Status = Running /\ DoesSessionExist(world, i)]_vars

\* A process has started and loaded a paused instance, left without a PTY
\* although its session lives, and another one that it restored.
C17_LoadedPausedAndRunning ==
  /\ lastMsg.op = "Load"
  /\ \E j, k \in 1 .. Len(items) :
       /\ items[j].Status = Paused
       /\ ~items[j].ptmx
       /\ DoesSessionExist(world, items[j])
       /\ items[k].Status = Running
       /\ items[k].ptmx

\* What an operation that refuses an instance returns: an error, and the
\* instance and the resources as they were
Refused(w, i) == [err |-> TRUE, w |-> w, i |-> i]

\* C18: an operation that is invalid in the current state (Resume on an
\* instance that is not Paused, Pause on an unstarted or already Paused
\* instance, SendKeys on an unstarted or Paused instance) returns an error
\* and changes neither the status nor any worktree or backend resource,
\* whatever external command would fail.
C18_InvalidOperationChangesNothing ==
  \A k \in 1 .. Len(items) :
    LET i == items[k]
    IN  /\ (~i.started \/ i.Status # Paused) =>
             \A f \in ResumeFails : Resume(world, i, f) = Refused(world, i)
        /\ (~i.started \/ i.Status = Paused) =>
             /\ \A f \in PauseFails : Pause(world, i, f) = Refused(world, i)
             /\ SendKeys(world, i) = Refused(world, i)

\* The resume key was pressed on a started instance that is Running on its
\* session and worktree, and was refused.
C18_ResumeOfRunningRefused ==
  /\ lastMsg.op = "Resume"
  /\ lastMsg.err = "error"
  /\ lastMsg.fails = {}
  /\ Selected # 0
  /\ items[Selected].started
  /\ items[Selected].Status = Running
  /\ SessionAlive(world, items[Selected])
  /\ WorktreeExists(world, items[Selected])

\* The first started instance of title t in its.
FirstStarted(its, t) ==
  CHOOSE k \in 1 .. Len(its) :
    /\ its[k].started /\ its[k].Title = t
    /\ \A j \in 1 .. k - 1 : ~(its[j].started /\ its[j].Title = t)

SharedTitles(its) ==
  {its[k].Title : k \in {k \in 1 .. Len(its) :
      its[k].started /\ \E j \in 1 .. Len(its) : j # k /\ its[j].started /\ its[j].Title = its[k].Title}}

\* C22: every instance list this process writes to the store holds at most
\* one record per title; of the started instances of the list that share a
\* title, the record written is that of the first.
C22_OneRecordPerTitle ==
  [][(disk' # disk /\ stateData' = disk') =>
       /\ \A j, k \in 1 .. Len(disk') : j # k => disk'[j].Title # disk'[k].Title
       /\ \A t \in SharedTitles(items') :
            \A k \in 1 .. Len(disk') :
              disk'[k].Title = t => disk'[k].id = items'[FirstStarted(items', t)].id]_vars

\* C22, reached: an instance was renamed to the title of another and the
\* list saved; the list holds two started instances of one title and the
\* store holds the record of the first of them only.
C22_DuplicateDropped ==
  /\ lastMsg.op = "Rename" /\ lastMsg.err = "nil"
  /\ SharedTitles(items) # {}
  /\ stateData = disk
  /\ \A t \in SharedTitles(items) :
       /\ Cardinality({k \in 1 .. Len(disk) : disk[k].Title = t}) = 1
       /\ \E k \in 1 .. Len(disk) : disk[k].Title = t /\ disk[k].id = items[FirstStarted(items, t)].id

\* C23: applying MergeInstances a second time with the same disk instances
\* yields the list of the first application and reports no change, for the
\* list, the store and the sessions of every reachable state and every order
\* in which the map of disk instances is ranged over.
C23_MergeIdempotent ==
  \A lf \in LoadFails :
    LET D == LoadedFrom(world, disk, lf) IN
    \A order \in Orders(TitlesOf(D) \ TitlesOf(items)) :
      LET m1 == MergeInstances(items, selectedIdx, D, order, world) IN
      \A again \in Orders(TitlesOf(D) \ TitlesOf(m1.items)) :
        LET m2 == MergeInstances(m1.items, m1.sel, D, again, world)
        IN  m2.items = m1.items /\ m2.sel = m1.sel /\ ~m2.changed

\* C23, reached: the store, written by another process, holds a title the
\* list lacks and lacks a title the list holds, so that the first merge of
\* the coming tick both adds and drops or keeps an instance.
C23_MergeHasWork ==
  /\ diskNewer
  /\ TitlesOf(disk) \ TitlesOf(items) # {}
  /\ TitlesOf(items) \ TitlesOf(disk) # {}
  /\ \E order \in Orders(TitlesOf(LoadedFrom(world, disk, {})) \ TitlesOf(items)) :
       MergeInstances(items, selectedIdx, LoadedFrom(world, disk, {}), order, world).changed

\* The ids of the instances of a list, of the records of a store.
IdsOf(s) == {s[k].id : k \in 1 .. Len(s)}

\* C31: a save of this process removes a record from the state file only
\* when this process has removed that instance from its list: a record
\* another process saved stays unless this process deleted the instance.
C31_SaveKeepsForeignRecords ==
  [][(disk' # disk /\ stateData' = disk') =>
       \A k \in 1 .. Len(disk) :
         disk[k].id \notin IdsOf(disk') =>
           disk[k].id \in IdsOf(items) /\ disk[k].id \notin IdsOf(items')]_vars

\* C31, reached: the debounced save has written this process's list over
\* the record of an instance another process created; the instance is not
\* in the list, its session lives, its record is gone.
C31_ForeignRecordOverwritten ==
  /\ lastMsg.op = "Save"
  /\ stateData = disk
  /\ \E t \in lastMsg.titles \ lastMsg.had :
       /\ t \notin TitlesOf(disk)
       /\ t \notin TitlesOf(items)
       /\ \E s \in world.sessions :
            /\ s.name = toClaudeSquadZellijName(t)
            /\ s.id \notin IdsOf(items)

\* C32: a tick that syncs from disk and merges while the new-instance dialog
\* is open (the instance is being named, or its start has been handed to
\* the background) leaves every instance that is not started yet in the
\* list.
C32_MergeKeepsNewInstance ==
  [][(lastMsg'.op = "tick" /\ homeState \in {stateNew, stateLoading}) =>
       \A k \in 1 .. Len(items) :
         ~items[k].started => items[k].id \in IdsOf(items')]_vars

\* C32, reached: the merge has removed the instance that was being named;
\* the dialog is still open and the list holds started instances only.
C32_NamedInstanceMerged ==
  /\ lastMsg.op = "tick"
  /\ homeState = stateNew
  /\ lastMsg.had \ lastMsg.titles # {}
  /\ \A k \in 1 .. Len(items) : items[k].started
  /\ Len(items) >= 1

\* The records whose restore (FromInstanceData, Start(false), Restore) opens
\* a PTY on a backend session on which a handle of the list has an open PTY
\* already.  The restored handle is not closed by LoadInstances, by
\* DeleteInstance or by MergeInstances, which keeps the handle of the list.
SecondPtys(w, its, recs, f) ==
  {k \in 1 .. Len(recs) :
     LET r == FromInstanceData(w, recs[k], f)
     IN  /\ r.ok
         /\ r.i.ptmx
         /\ \E j \in 1 .. Len(its) :
              its[j].ptmx /\ SameSession(SessionOf(r.i), its[j])}

\* C33: a tick that reads the persisted list (SyncFromDisk) opens no PTY on
\* a backend session on which a handle of the list has an open PTY, so that
\* no session has more than one open PTY of this process.
C33_ReadOpensNoSecondPty ==
  [][lastMsg'.op = "tick" =>
       \A lf \in LoadFails :
         TitlesOf(LoadedFrom(world, disk, lf)) = lastMsg'.titles =>
           SecondPtys(world, items, disk, lf) = {}]_vars

\* C33, reached: after a sync the list still holds the handle, PTY open, of
\* an instance whose record the sync has restored with a PTY of its own.
C33_TwoPtysOnOneSession ==
  /\ lastMsg.op = "tick"
  /\ \E j \in 1 .. Len(items), k \in 1 .. Len(disk) :
       /\ items[j].ptmx
       /\ items[j].Title \in lastMsg.had \cap lastMsg.titles
       /\ disk[k].Title = items[j].Title
       /\ disk[k].Status # Paused /\ ~disk[k].Archived
       /\ k \in SecondPtys(world, items, disk, {})

\* C35: a confirmed kill of a started instance whose branch is not checked
\* out leaves neither a record of its title in the state file nor the
\* instance in the list, whether its backend session still exists or not.
C35_KillRemovesRecordAndItem ==
  [][(lastMsg'.op = "KeyKill" /\ GetSelectedInstance(items, filterMode, selectedIdx) # 0) =>
       LET i == items[GetSelectedInstance(items, filterMode, selectedIdx)]
       IN  (i.started /\ ~IsBranchCheckedOut(world, i)) =>
             /\ i.Title \notin TitlesOf(disk')
             /\ i.id \notin IdsOf(items')]_vars

\* C35, reached: the kill of a started instance whose session has ended was
\* refused with "instance not found"; the instance is still selected in the
\* list and the state file has no record of it.
C35_KillOfEndedSessionRefused ==
  /\ lastMsg.op = "KeyKill"
  /\ lastMsg.err = "instance not found"
  /\ GetSelectedInstance(items, filterMode, selectedIdx) # 0
  /\ LET i == items[GetSelectedInstance(items, filterMode, selectedIdx)]
     IN  /\ i.started /\ i.Status # Paused /\ ~i.Archived
         /\ ~IsBranchCheckedOut(world, i)
         /\ ~DoesSessionExist(world, i)
         /\ i.Title \notin TitlesOf(disk)

\* The instance being created while the name dialog is open: the instance
\* KeyNew has appended, which is the instance with the greatest id among
\* those not started (0 when the list has none).
Creating(its) ==
  LET U == {k \in 1 .. Len(its) : ~its[k].started}
  IN  IF U = {} THEN 0 ELSE CHOOSE k \in U : \A j \in U : its[j].id <= its[k].id

WithId(its, id) == CHOOSE k \in 1 .. Len(its) : its[k].id = id

\* C36: while an instance is being created, a key typed into the name
\* dialog changes the title of no other instance, Enter and the cancel keys
\* start or remove no other instance, and the end of a failed start removes
\* no instance that is started.
C36_NewInstanceHandlersHitNewInstance ==
  [][/\ homeState = stateNew =>
          \A k \in 1 .. Len(items) :
            k # Creating(items) =>
              /\ homeState' # stateNew =>
                   /\ items[k].id \in IdsOf(items')
                   /\ items'[WithId(items', items[k].id)] = items[k]
              /\ items[k].id \in IdsOf(items') =>
                   items'[WithId(items', items[k].id)].Title = items[k].Title
     /\ (homeState = stateLoading /\ homeState' = stateDefault /\ inflight = "err") =>
          \A k \in 1 .. Len(items) :
            items[k].started => items[k].id \in IdsOf(items')]_vars

\* C36, reached: Enter has started an instance while the instance being
\* created has no title yet, and no sync has touched the list: the start was
\* that of another instance.
C36_EnterStartedOtherInstance ==
  /\ homeState = stateLoading
  /\ lastMsg.op = "Start"
  /\ Creating(items) # 0
  /\ items[Creating(items)].Title = <<>>
  /\ items[Creating(items)].id = nextId - 1

----
(***************************************************************************)
(* Specification of Part VI: the sanitizer on every string up to           *)
(* MaxNameLen symbols.                                                     *)
(***************************************************************************)
InitNames ==
  /\ StoreIdle
  /\ LaterIdle
  /\ InitLife /\ ~autoYes
  /\ att = NoAttach /\ dif = NoDiff /\ summ = NoSummary /\ ttl = NoTitle /\ cc = NoCache
  /\ \E str \in Names : nm = NameOf(str)

NextNames == newZellijSession

SpecNames == InitNames /\ [][NextNames]_vars

\* C25: the result of the sanitizer holds no white space and no dot and
\* holds the prefix exactly once, and sanitizing the result again gives the
\* same result.
C25_SanitizeIdempotent ==
  /\ Len(nm.results) >= 1 =>
       /\ \A k \in 1 .. Len(nm.results[1]) : nm.results[1][k] \notin whiteSpace \cup {"."}
       /\ Cardinality(Occurrences(nm.results[1], ZellijPrefix)) = 1
  /\ Len(nm.results) >= 2 => nm.results[2] = nm.results[1]

\* C25, reached: the sanitized form of "a" sanitized again has two prefixes.
C25_PrefixTwice ==
  /\ nm.str = <<"a">>
  /\ Len(nm.results) = 2
  /\ nm.results[1] = ZellijPrefix \o <<"a">>
  /\ nm.results[2] = ZellijPrefix \o ZellijPrefix \o <<"a">>
----
\* The state store with two processes; the TUI of Part II is idle.

InitStoreIdle == InitStore /\ InitLife /\ ~autoYes /\ AuxIdle

NextStore ==
  \/ Tick
  \/ \E p \in Procs : ProcStep(p)
  \/ \E p \in Procs : ProcFails(p)

SpecStore == InitStoreIdle /\ [][NextStore]_vars

\* Every process keeps being scheduled and flock grants a waiter the lock when
\* it is free often enough; failures are never forced.
SpecStoreFair == SpecStore /\ \A p \in Procs : SF_vars(ProcStep(p))

\* C3: while one process executes SaveInstances, a reader in another process
\* (LoadState or RefreshFromDisk) obtains the complete prior snapshot or the
\* complete next snapshot, never the result of a partially written file.
C3_ReadersSeeFullSnapshot ==
  \A p \in Procs :
    readView[p].op # "none" => readView[p].ok

\* C4: when the state file does not exist, LoadState terminates and returns
\* the default state, and the defaults are on disk when it returns.
C4_LoadStateMissingFileReturns ==
  \A p \in Procs :
    (pc[p] = "ss_lock" /\ local[p].caller = "LoadState")
      ~> (pc[p] = "idle" /\ local[p].ret = "default" /\ stateFile.exists)

\* The positions of a process inside RefreshFromDisk
RefreshSteps == {"rf_need", "rf_rlock", "rf_stat", "rf_read"}

\* C15: RefreshFromDisk reloads the in-memory state exactly when the state
\* file's mtime is strictly greater than the in-memory watermark, and returns
\* true if and only if it reloaded. Checked at the step in which a call
\* returns: it returns true exactly when the file is newer than the
\* watermark the call started with, a call that returns true has installed
\* the file's content and mtime, any other call has left the state alone.
C15_RefreshExactlyWhenNewer ==
  [][\A p \in Procs :
       (pc[p] \in RefreshSteps /\ pc'[p] = "idle") =>
         /\ local'[p].ret = "true" <=> NeedsRefresh(appState[p].lastModTime)
         /\ local'[p].ret = "true" =>
              appState'[p] = [InstancesData |-> stateFile.content,
                              lastModTime |-> stateFile.mtime]
         /\ local'[p].ret # "true" => appState'[p] = appState[p]]_vars

\* A RefreshFromDisk call has returned an error although the file is newer
\* than the watermark of the process: nothing was reloaded.
C15_NewerFileNotReloaded ==
  \E p \in Procs :
    /\ pc[p] = "idle"
    /\ local[p].op = "RefreshFromDisk"
    /\ local[p].ret = "error"
    /\ NeedsRefresh(appState[p].lastModTime)

\* C16: if acquiring the advisory lock for a read fails, the read (in
\* LoadState and in RefreshFromDisk) proceeds without the lock and returns
\* the on-disk data rather than an error. Checked at the step in which the
\* lock request of a read fails: the call goes on to stat and read the file.
C16_FailedReadLockDowngrades ==
  [][\A p \in Procs :
       (/\ pc[p] \in {"ls_rlock", "rf_rlock"}
        /\ pc'[p] # pc[p]
        /\ stateLock' = stateLock) =>
         /\ pc'[p] = (IF pc[p] = "ls_rlock" THEN "ls_stat" ELSE "rf_stat")
         /\ local'[p].ret # "error"]_vars

\* RefreshFromDisk has returned an error without having taken the lock or
\* read the file, while the file exists and parses.
C16_RefreshGaveUpOnLockError ==
  \E p \in Procs :
    /\ pc[p] = "idle"
    /\ local[p].op = "RefreshFromDisk"
    /\ local[p].ret = "error"
    /\ stateFile.exists
    /\ stateFile.content # Partial
    /\ stateLock.shared[p] = 0

\* C30: when another process has completed a write of the state file since
\* this process last wrote or read it, whenever that was, the next
\* RefreshFromDisk of this process returns true and installs the file.
\* Checked at the step in which a RefreshFromDisk call returns.
C30_RefreshLoadsForeignWrite ==
  [][\A p \in Procs :
       (pc[p] \in RefreshSteps /\ pc'[p] = "idle" /\ readView[p].unseen) =>
         /\ local'[p].ret = "true"
         /\ appState'[p].InstancesData = stateFile.content]_vars

\* C30, reached: the other process has written new content in the clock
\* reading of this process's watermark, and RefreshFromDisk has returned
\* false and left the state of this process alone.
C30_SameMtimeWriteMissed ==
  \E p \in Procs :
    /\ pc[p] = "idle"
    /\ local[p].op = "RefreshFromDisk" /\ local[p].ret = "false"
    /\ readView[p].missed /\ readView[p].unseen
    /\ stateFile.exists /\ stateFile.content # Partial
    /\ stateFile.mtime = appState[p].lastModTime
    /\ appState[p].InstancesData # stateFile.content
    /\ \A q \in Procs : stateLock.shared[q] = 0
    /\ stateLock.excl = NoProc

----
(***************************************************************************)
(* Specification of Part V: the summarizer, its instances and the clock.   *)
(***************************************************************************)
InitSummary ==
  /\ StoreIdle
  /\ LaterIdle
  /\ InitLife /\ ~autoYes
  /\ att = NoAttach /\ dif = NoDiff /\ nm = NoName /\ ttl = NoTitle /\ cc = NoCache
  /\ summ = NoSummary

NextSummary ==
  \/ \E previewFails \in BOOLEAN : tickUpdateSummary(previewFails)
  \/ SummaryClock
  \/ \E st \in {"new", "running", "paused"} : SummaryListAdd(st)
  \/ \E k \in 1 .. MaxSummaryInstances, st \in {"running", "paused"} : SummaryListSet(k, st)
  \/ \E k \in 1 .. MaxSummaryInstances : SummaryListRemove(k)

SpecSummary == InitSummary /\ [][NextSummary]_vars

\* The positions of the list whose summary the last tick generated.
Summarized ==
  {k \in 1 .. Len(summ.instances) :
     summ.instances[k].SummaryUpdatedAt # summ.last.before[k].SummaryUpdatedAt}

\* Position k of the tick's list could be summarized: started, not paused,
\* no summary within the last 10 s.
Due(k) ==
  LET i == summ.last.before[k]
  IN  /\ i.st = "running"
      /\ i.SummaryUpdatedAt = ZeroTime \/ summ.last.now - i.SummaryUpdatedAt >= 10

\* Steps of the rotation from the round-robin index to position k.
Turn(k) == ((k - 1) - summ.last.startIdx) % Len(summ.last.before)

\* C24: a summary tick generates a summary for at most one instance; that
\* instance is the first in the rotation, starting at the round-robin index,
\* that is started, not paused and outside its cooldown, and no summary is
\* generated for an instance inside its cooldown.
C24_OneSummaryRoundRobin ==
  summ.last.ran =>
    /\ Cardinality(Summarized) <= 1
    /\ \A k \in Summarized :
         /\ Due(k)
         /\ \A j \in 1 .. Len(summ.last.before) : Turn(j) < Turn(k) => ~Due(j)
         /\ summ.lastUpdateIndex = k % Len(summ.last.before)

\* C24, reached: the tick has passed over an instance inside its cooldown
\* and generated the summary of a later one.
C24_SkippedCoolingInstance ==
  /\ summ.last.ran
  /\ \E k \in Summarized :
       \E j \in 1 .. Len(summ.last.before) :
         /\ Turn(j) < Turn(k)
         /\ summ.last.before[j].st = "running"
         /\ summ.last.before[j].SummaryUpdatedAt # ZeroTime

----
(***************************************************************************)
(* Specification of Part VII: the keys of stateNew on the title.           *)
(***************************************************************************)
InitTitle ==
  /\ StoreIdle
  /\ LaterIdle
  /\ InitLife /\ ~autoYes
  /\ att = NoAttach /\ dif = NoDiff /\ summ = NoSummary /\ nm = NoName /\ cc = NoCache
  /\ ttl = NoTitle

NextTitle ==
  \/ TitleKeyNew
  \/ \E n \in 1 .. MaxRunes : TitleKeyRunes(n)
  \/ TitleKeySpace
  \/ TitleKeyBackspace
  \/ TitleKeyEnter

SpecTitle == InitTitle /\ [][NextTitle]_vars

\* C26: Enter on a title of length 0 or 33 does not create the instance,
\* Enter on a title of length 32 does, whatever keys built the title.
C26_TitleLengthGate ==
  ttl.enter.pressed =>
    /\ ttl.enter.len \in {0, 33} => ~ttl.enter.accepted
    /\ ttl.enter.len = 32 => ttl.enter.accepted

\* C26, reached: Enter has started the creation of an instance whose title
\* is 33 bytes long.
C26_Title33Accepted ==
  /\ ttl.enter.pressed
  /\ ttl.enter.len = 33
  /\ ttl.enter.accepted
  /\ ttl.state = "stateLoading"

----
(***************************************************************************)
(* Specification of Part IX: one container-backed instance of either       *)
(* session type, a title with or without the prefix, and the clock.        *)
(***************************************************************************)
DockerTitles == {<<"a">>, <<"a", ".", "b">>, <<"claudesquad", "_", "a">>}

InitDocker ==
  /\ StoreIdle
  /\ InitLife /\ ~autoYes
  /\ EarlierIdle /\ par = NoWorkers /\ cap = NoCaptureRead
  /\ \E t \in DockerTitles, st \in {SessionTypeDockerBind, SessionTypeDockerClone} :
       dkr = [NoContainer EXCEPT !.Title = t, !.SessionType = st]

NextDocker ==
  \/ DockerInstanceStart
  \/ DockerSave
  \/ \E step \in {1, SuffixMask - 1} : DockerClock(step)
  \/ DockerFromInstanceData
  \/ \E fails \in BOOLEAN : DockerPause(fails)
  \/ \E o \in NilWorktreeCalls : DockerResume(o)
  \/ \E fails \in BOOLEAN : DockerUpdateDiffStats(fails)
  \/ \E o \in NilWorktreeCalls : DockerKill(o)

SpecDocker == InitDocker /\ [][NextDocker]_vars

\* C37: the handle that FromInstanceData builds from the record of a
\* started container-backed instance has the name of the container that
\* Start created.
C37_ReloadedHandleNamesContainer ==
  (dkr.loaded.done /\ dkr.created # NoHandle) => dkr.loaded.handle = dkr.created

\* C37, reached: the container of the instance exists, and the record,
\* read back a second later, has given a handle of another name, whose
\* restore has failed.
C37_ReloadedHandleNamesNoContainer ==
  /\ dkr.loaded.done /\ ~dkr.loaded.ok
  /\ dkr.created \in dkr.containers
  /\ dkr.loaded.handle # dkr.created
  /\ dkr.loaded.handle \notin dkr.containers
  /\ SubSeq(dkr.loaded.handle, 1, Len(dkr.created) - 1)
       = SubSeq(dkr.created, 1, Len(dkr.created) - 1)

\* C38: for a started instance of session type docker-clone, which has no
\* worktree descriptor, Pause, Resume, the kill action and the diff update
\* of the tick end, with or without an error, and never in a nil pointer
\* dereference.
C38_CloneNeedsNoWorktree ==
  (dkr.SessionType = SessionTypeDockerClone /\ dkr.op \in {"Pause", "Resume", "Kill", "Diff"}) =>
    dkr.ret \in {"nil", "error"}

\* C38, reached: the diff update of the tick has dereferenced the missing
\* descriptor of a running docker-clone instance.
C38_CloneDiffDereferencesNil ==
  /\ dkr.SessionType = SessionTypeDockerClone
  /\ dkr.started /\ dkr.Status = Running /\ ~dkr.gitWorktree
  /\ dkr.op = "Diff"
  /\ dkr.ret = "panic"

----
(***************************************************************************)
(* Specification of Part X: ticks over lists of up to MaxWorkInstances     *)
(* instances, the worker tasks scheduled in any order.                     *)
(***************************************************************************)
WorkLists == UNION {[1 .. n -> BOOLEAN] : n \in 0 .. MaxWorkInstances}

InitWorkers ==
  /\ StoreIdle
  /\ InitLife /\ ~autoYes
  /\ EarlierIdle /\ dkr = NoContainer /\ cap = NoCaptureRead
  /\ par = NoWorkers

NextWorkers ==
  \/ \E insts \in WorkLists : TickCallsParallelUpdate(insts)
  \/ WorkerLoopSkips
  \/ WorkerLoopSpawns
  \/ \E k \in 1 .. MaxWorkInstances : WorkerRuns(k)
  \/ \E k \in 1 .. MaxWorkInstances : WorkerReleases(k)
  \/ \E k \in 1 .. MaxWorkInstances : WorkerDone(k)
  \/ WorkerWaitReturns

SpecWorkers == InitWorkers /\ [][NextWorkers]_vars

\* C39: during the activity phase and the diff phase of a tick the number
\* of worker tasks that are doing the work of an instance is at most the
\* number of CPUs.
C39_WorkersBoundedByCPUs ==
  Cardinality(AtWork(par)) <= NumCPU

\* C39, reached: as many worker tasks as there are CPUs are at work and the
\* loop waits at the semaphore with a further instance to update.
C39_LoopWaitsAtSemaphore ==
  /\ par.phase = "diff"
  /\ Cardinality(AtWork(par)) = NumCPU
  /\ par.next <= Len(par.insts)
  /\ par.insts[par.next]
  /\ ~SemHasRoom(par)

----
(***************************************************************************)
(* Specification of Part XI: one call of the reader, the file written at   *)
(* any time before, during or after the attempts, or never.                *)
(***************************************************************************)
InitCapture ==
  /\ StoreIdle
  /\ InitLife /\ ~autoYes
  /\ EarlierIdle /\ dkr = NoContainer /\ par = NoWorkers
  /\ \E f \in {"absent", "empty", "partial", "content"} : cap = [NoCaptureRead EXCEPT !.file = f]

NextCapture ==
  \/ ReadCaptureFileWithRetry
  \/ \E s \in {"empty", "partial", "content"} : CaptureFileWritten(s)
  \/ CaptureSleepEnds
  \/ CaptureStat
  \/ CaptureReadFile

SpecCapture == InitCapture /\ [][NextCapture]_vars

====
